---- MODULE Spec2Model ----
(***************************************************************************)
(* Orchestration of the legal document analyzer.                           *)
(*                                                                         *)
(* The pipeline specification (Spec) follows analyze_document of           *)
(* OptimizedLegalDocumentAnalyzer (app/core/analyzer_optimized.py) and of  *)
(* MinimalLegalDocumentAnalyzer (app/core/analyzer_minimal.py): coroutines *)
(* that suspend on futures of a shared ThreadPoolExecutor.  Stage          *)
(* functions are opaque: a document is a small record that says what each  *)
(* stage function returns for it; what is modelled in full is the control  *)
(* flow, the pool, the gather semantics and the error handlers.            *)
(* SpecConcurrent runs two calls on the shared instance, SpecSingleton the *)
(* construction of the instance by several threads (__new__, __init__),    *)
(* and SpecCache quick_analyze behind its time-to-live cache.              *)
(***************************************************************************)
EXTENDS Integers, Sequences, FiniteSets, TLC

VARIABLES
    variant,      \* which orchestrator class runs: "optimized" | "minimal"
    callers,      \* the analyses that are called in this run
    doc,          \* doc[a]: the document analysis a was called with
    include,      \* include[a]: the include_simplification argument
    pc,           \* pc[a]: where coroutine a is suspended
    hist,         \* hist[a]: pipeline states entered so far, in order
    frame,        \* frame[s]: local variables of a running analyze_document
    queue,        \* executor work queue (FIFO)
    running,      \* work items being executed by worker threads
    done,         \* done[a]: completed futures not yet consumed, in completion order
    lastOrder,    \* lastOrder[a]: completion order of the group consumed last
    faults,       \* faults[a]: the stage functions that did not end normally
    result,       \* result[a]: what analyze_document returned
    raised,       \* raised[a]: the error analyze_document raised
    instance,     \* cls._instance: 0 is None, otherwise the object
    lock,         \* cls._lock: 0 is free, otherwise the thread holding it
    tpc,          \* tpc[t]: where thread t is in the constructor call
    obtained,     \* obtained[t]: the object __new__ returned to thread t
    istep,        \* istep[t]: statements of __init__ thread t has executed
    initialized,  \* the objects that have the attribute _initialized
    built,        \* built[x]: how often attribute x of the instance was constructed
    store,        \* the entries of the TTL cache, by key
    now,          \* the clock the cache reads, in ticks
    req,          \* req[r]: the quick_analyze call r
    puts,         \* puts[k]: the last two values written under key k
    ctext,        \* the text given to the classifier, a sequence of words
    cres,         \* what the classifier returned for ctext
    cprev,        \* the text and the result of the classification before
    etext,        \* the text given to the entity extractor, a sequence of tokens
    eres,         \* what the entity extractor returned or raised
    efault,       \* the entity family whose extraction failed, or "none"
    stext,        \* the text given to the segmenter, a sequence of pieces
    sres,         \* the clauses the segmenter returned
    mchunks,      \* the clause lists found in the chunks of a large text
    mres,         \* the merged clause list
    sclause,      \* the clause given to a simplifier
    sout,         \* the call a simplifier answered and what it returned or raised
    ntext,        \* the text given to the normalizer, a sequence of tokens
    nres,         \* what the normalizer returned
    ftext,        \* the length of the unstructured text given to the standalone segmenter
    fres,         \* the clauses the standalone segmenter returned
    ktext,        \* the text given to _chunk_text, a sequence of runs of characters
    kloop         \* the position, the local start and the chunks of _chunk_text

pipevars == <<variant, callers, doc, include, pc, hist, frame, queue, running, done,
              lastOrder, faults, result, raised>>

singvars == <<instance, lock, tpc, obtained, istep, initialized, built>>

cachevars == <<store, now, req, puts>>

clsvars == <<ctext, cres, cprev>>

nervars == <<etext, eres, efault>>

segvars == <<stext, sres, mchunks, mres>>

simpvars == <<sclause, sout>>

normvars == <<ntext, nres>>

fixvars == <<ftext, fres>>

chunkvars == <<ktext, kloop>>

funvars == <<clsvars, nervars, segvars, simpvars, normvars, fixvars, chunkvars>>

vars == <<pipevars, singvars, cachevars, funvars>>

-----------------------------------------------------------------------------
(* Bounds *)

\* number of clauses the segmenter finds in the longest small document
NumClauses == 4

\* threads that construct the orchestrator concurrently
NumThreads == 2

Threads == 1..NumThreads

\* clock ticks the cache is observed for
MaxTicks == 3

\* the quick_analyze calls that can be in progress together
Requests == {1, 2}

\* the calls of analyze_document that can be in progress together
Analyses == {1, 2}

-----------------------------------------------------------------------------
(* Program constants *)

MaxWorkers == 4

BatchSize == 3

SimplifyLimit == 10

MinimalSimplifyLimit == 5

-----------------------------------------------------------------------------
(* Values *)

NoVal == [tag |-> "none"]

ErrVal(k) == [tag |-> "error", from |-> k]

Min(x, y) == IF x < y THEN x ELSE y

Last(s) == s[Len(s)]

SeqRange(s) == {s[i] : i \in 1..Len(s)}

IsPrefix(s, t) == Len(s) <= Len(t) /\ \A i \in 1..Len(s) : s[i] = t[i]

RECURSIVE IsSubSeq(_, _)
IsSubSeq(s, t) ==
    IF s = <<>> THEN TRUE
    ELSE IF t = <<>> THEN FALSE
    ELSE IF Head(s) = Head(t) THEN IsSubSeq(Tail(s), Tail(t))
    ELSE IsSubSeq(s, Tail(t))

RECURSIVE Flatten(_)
Flatten(ss) == IF ss = <<>> THEN <<>> ELSE Head(ss) \o Flatten(Tail(ss))

-----------------------------------------------------------------------------
(* Documents.  A document says what the stage functions return for it:     *)
(* its type, whether its cleaned text is longer than 10,000 characters,    *)
(* and the clauses the segmenter finds in the text or in each chunk.       *)

DocIds == {1, 2, 3, 4}

\* a document with more clauses than the simplification stage takes
LongDocId == 5

\* the clauses of the long document
LongDocClauses == 12

\* a document whose cleaned text is cut into more chunks than the pool has
\* workers
HugeDocId == LongDocId + 1

\* the chunks of the huge document
HugeDocChunks == MaxWorkers + 1

\* the documents of two concurrent calls
ConcurrentDocIds == {2, 4}

Clause(n) == [tag |-> "clause", id |-> n]

DocType(d) ==
    CASE d = 1 -> "nda"
      [] d = 2 -> "unknown"
      [] d = 3 -> "lease_agreement"
      [] OTHER -> "service_agreement"

\* len(text) > 10000
IsLarge(d) == d = 3 \/ d = HugeDocId

\* parser.extract_clauses on the whole cleaned text (DocumentParser) and
\* _extract_clauses (MinimalLegalDocumentAnalyzer), which finds at most one
\* paragraph in a cleaned text
WholeClauses(v, d) ==
    IF v = "optimized"
    THEN CASE d = 1 -> [k \in 1..NumClauses |-> Clause(10 + k)]
           [] d = 2 -> <<Clause(91)>>
           [] d = 3 -> <<Clause(71), Clause(72), Clause(73)>>
           [] d = LongDocId -> [k \in 1..LongDocClauses |-> Clause(100 + k)]
           [] OTHER -> <<Clause(81), Clause(82)>>
    ELSE CASE d = 1 -> <<Clause(10)>>
           [] d = 2 -> <<>>
           [] d = 3 -> <<Clause(70)>>
           [] d = LongDocId -> <<Clause(100)>>
           [] OTHER -> <<Clause(80)>>

\* parser.extract_clauses on the chunks of a large text: neighbouring chunks
\* overlap, so a clause of the overlap is found in both
ChunkClauses(d) ==
    IF d = HugeDocId
    THEN [i \in 1..HugeDocChunks |-> <<Clause(201)>>]
    ELSE << <<Clause(71), Clause(72)>>, <<Clause(72), Clause(73)>>, <<Clause(73)>> >>

-----------------------------------------------------------------------------
(* Stage functions (results are tagged with the text they were computed    *)
(* from, so that a result used for the wrong analysis is visible)          *)

RawText(d) == [tag |-> "raw", doc |-> d]

CleanedText(d) == [tag |-> "cleaned", doc |-> d]

ChunkOf(text, i) == [tag |-> "chunk", doc |-> text.doc, part |-> i]

parse_document(d) ==
    [tag |-> "parsed", full_text |-> RawText(d),
     metadata |-> [tag |-> "metadata", doc |-> d]]

preprocess_document(text) ==
    [tag |-> "preprocessed", cleaned_text |-> CleanedText(text.doc),
     statistics |-> [tag |-> "statistics", doc |-> text.doc]]

classify_document(text) ==
    [tag |-> "classification", doc |-> text.doc,
     predicted_type |-> DocType(text.doc),
     is_confident |-> DocType(text.doc) # "unknown"]

\* the except branch of DocumentClassifier.classify_document
classify_fallback ==
    [tag |-> "classification", doc |-> 0,
     predicted_type |-> "unknown", is_confident |-> FALSE]

analyze_document_entities(text) == [tag |-> "entities", doc |-> text.doc]

_chunk_text(text) ==
    [i \in 1..Len(ChunkClauses(text.doc)) |-> ChunkOf(text, i)]

extract_clauses(v, text) ==
    [tag |-> "clauses",
     list |-> IF text.tag = "chunk" THEN ChunkClauses(text.doc)[text.part]
              ELSE WholeClauses(v, text.doc)]

\* str.strip on the first 100 characters of a clause: "A " is a prefix
\* that ends in white space
Strip(start) == IF start = "A " THEN "A" ELSE start

\* clause[:100].strip(); a clause that does not spell out its first 100
\* characters stands for them
clause_start(c) == IF "start" \in DOMAIN c THEN Strip(c.start) ELSE c

RECURSIVE Dedup(_, _)
Dedup(kept, rest) ==
    IF rest = <<>> THEN kept
    ELSE IF \E j \in DOMAIN kept : clause_start(kept[j]) = clause_start(Head(rest))
         THEN Dedup(kept, Tail(rest))
         ELSE Dedup(Append(kept, Head(rest)), Tail(rest))

\* faulty variant: every clause of every chunk is kept
_keep_all_clauses(clauses) == clauses

_deduplicate_clauses(clauses) == Dedup(<<>>, clauses)

simplify_clause(clause) == [tag |-> "simplified", original_clause |-> clause]

get_document_characteristics(args) ==
    [tag |-> "characteristics", doc |-> args.text.doc, doc_type |-> args.doc_type]

\* the except branch of DocumentClassifier.get_document_characteristics
characteristics_fallback == [tag |-> "characteristics", doc |-> 0, doc_type |-> "none"]

\* functools.lru_cache hashes its arguments: a dict argument raises TypeError
\* before the wrapped function (and its try/except) is entered
IsDict(x) == x.tag \in {"classification", "entities", "characteristics", "statistics"}

summary_body(cls, ent, chars, stats) ==
    [tag |-> "summary", document_type |-> cls.predicted_type,
     entities_of |-> ent.doc, complexity_of |-> stats.doc]

_generate_document_summary(v, cls, ent, chars, stats) ==
    IF v = "optimized" /\ \E x \in {cls, ent, chars, stats} : IsDict(x)
    THEN ErrVal("summary")
    ELSE summary_body(cls, ent, chars, stats)

-----------------------------------------------------------------------------
(* The worker pool: ThreadPoolExecutor(max_workers=4)                      *)

Task(a, k, i, arg) == [a |-> a, kind |-> k, idx |-> i, arg |-> arg]

Kinds == {"parse", "preprocess", "classify", "entities", "clauses",
          "simplify", "characteristics"}

\* How a stage function can end: "ok", "fallback" (its own except branch
\* absorbed an internal error and returned a default), "raise"
Outcomes(v, k) ==
    CASE k = "classify" -> IF v = "optimized" THEN {"ok", "fallback"} ELSE {"ok", "raise"}
      [] k = "characteristics" -> {"ok", "fallback"}
      [] OTHER -> {"ok", "raise"}

Execute(v, t, o) ==
    IF o = "raise" THEN ErrVal(t.kind)
    ELSE CASE t.kind = "parse" -> parse_document(t.arg.doc)
           [] t.kind = "preprocess" -> preprocess_document(t.arg)
           [] t.kind = "classify" ->
                IF o = "fallback" THEN classify_fallback ELSE classify_document(t.arg)
           [] t.kind = "entities" -> analyze_document_entities(t.arg)
           [] t.kind = "clauses" -> extract_clauses(v, t.arg)
           [] t.kind = "simplify" -> simplify_clause(t.arg)
           [] OTHER ->
                IF o = "fallback" THEN characteristics_fallback
                ELSE get_document_characteristics(t.arg)

NumInPool(a, k) ==
    Cardinality({i \in 1..Len(queue) : queue[i].a = a /\ queue[i].kind = k})
        + Cardinality({t \in running : t.a = a /\ t.kind = k})

\* a worker thread takes the oldest work item
WorkerStart ==
    /\ queue # <<>>
    /\ Cardinality(running) < MaxWorkers
    /\ running' = running \cup {Head(queue)}
    /\ queue' = Tail(queue)
    /\ UNCHANGED <<variant, callers, doc, include, pc, hist, frame, done, lastOrder,
                   faults, result, raised>>

\* faulty variant: a work item waits for the work items of its analysis that
\* are still in the queue, as if it had submitted them itself
waits_for_queue(t) == \E i \in 1..Len(queue) : queue[i].a = t.a

\* a stage function is called with the pool's work item as its only resource:
\* it submits nothing and waits for no other work item
waits_for_pool(t) == FALSE

\* a worker thread finishes its work item and sets the future; the result of
\* a future nobody awaits any more is dropped
WorkerFinish ==
    \E t \in running : \E o \in Outcomes(variant, t.kind) :
        /\ ~waits_for_pool(t)
        /\ running' = running \ {t}
        /\ done' = IF pc[t.a] = "failed" THEN done
                   ELSE [done EXCEPT ![t.a] =
                            Append(@, [kind |-> t.kind, idx |-> t.idx,
                                       val |-> Execute(variant, t, o)])]
        /\ faults' = IF o = "ok" THEN faults
                     ELSE [faults EXCEPT ![t.a] = @ \cup {<<t.kind, t.idx, o>>}]
        /\ UNCHANGED <<variant, callers, doc, include, pc, hist, frame, queue, lastOrder,
                       result, raised>>

HasDone(a, k, i) == \E j \in 1..Len(done[a]) : done[a][j].kind = k /\ done[a][j].idx = i

\* the result of a future, if it has one
ValDone(a, k, i) ==
    IF HasDone(a, k, i)
    THEN done[a][CHOOSE j \in 1..Len(done[a]) : done[a][j].kind = k /\ done[a][j].idx = i].val
    ELSE NoVal

\* faulty variant: exceptions of the awaited futures are not raised
ErrorsIgnored(ds, ks) == <<>>

\* futures of the kinds ks that ended with an exception, in completion order
RECURSIVE ErrorsOf(_, _)
ErrorsOf(ds, ks) ==
    IF ds = <<>> THEN <<>>
    ELSE IF Head(ds).kind \in ks /\ Head(ds).val.tag = "error"
         THEN <<Head(ds).val>> \o ErrorsOf(Tail(ds), ks)
         ELSE ErrorsOf(Tail(ds), ks)

RECURSIVE Without(_, _)
Without(ds, ks) ==
    IF ds = <<>> THEN <<>>
    ELSE IF Head(ds).kind \in ks THEN Without(Tail(ds), ks)
         ELSE <<Head(ds)>> \o Without(Tail(ds), ks)

RECURSIVE OrderOf(_, _)
OrderOf(ds, ks) ==
    IF ds = <<>> THEN <<>>
    ELSE IF Head(ds).kind \in ks THEN <<Head(ds).idx>> \o OrderOf(Tail(ds), ks)
         ELSE OrderOf(Tail(ds), ks)

-----------------------------------------------------------------------------
(* analyze_document: one coroutine per call                                *)

\* faulty variant: intermediate results are kept on the shared instance
FrameShared(a) == 1

\* the local variables of call a live in the frame of that call
Frame(a) == a

F(a) == frame[Frame(a)]

EmptyFrame ==
    [parsed |-> NoVal, pre |-> NoVal, cls |-> NoVal, ent |-> NoVal,
     clauses |-> <<>>, simp |-> <<>>, chars |-> NoVal, i |-> 0]

CharArgs(f) ==
    [tag |-> "charargs", text |-> f.pre.cleaned_text, doc_type |-> f.cls.predicted_type]

AnalysisResult(f, summary) ==
    [tag |-> "result",
     document_info |-> f.parsed.metadata,
     classification |-> f.cls,
     characteristics |-> f.chars,
     text_statistics |-> f.pre.statistics,
     entities |-> f.ent,
     total_count |-> Len(f.clauses),
     extracted_clauses |-> f.clauses,
     simplified_clauses |-> f.simp,
     summary |-> summary]

\* except Exception: log and raise
Fail(a, e, h) ==
    /\ pc' = [pc EXCEPT ![a] = "failed"]
    /\ hist' = [hist EXCEPT ![a] = Append(h, "Failed")]
    /\ raised' = [raised EXCEPT ![a] = e]
    /\ UNCHANGED result

\* step 8: the result dict is built, with the summary, and returned
Assemble(a, f, h) ==
    LET s == _generate_document_summary(variant, f.cls, f.ent, f.chars, f.pre.statistics)
    IN  /\ frame' = [frame EXCEPT ![Frame(a)] = f]
        /\ IF s.tag = "error"
           THEN Fail(a, s, h)
           ELSE /\ pc' = [pc EXCEPT ![a] = "returned"]
                /\ hist' = [hist EXCEPT ![a] = Append(h, "Assembled")]
                /\ result' = [result EXCEPT ![a] = AnalysisResult(f, s)]
                /\ UNCHANGED raised

\* step 7: characteristics, on the pool (optimized) or inline (minimal)
Characterize(a, f, h) ==
    IF variant = "optimized"
    THEN /\ queue' = Append(queue, Task(a, "characteristics", 1, CharArgs(f)))
         /\ frame' = [frame EXCEPT ![Frame(a)] = f]
         /\ pc' = [pc EXCEPT ![a] = "characteristics"]
         /\ hist' = [hist EXCEPT ![a] = h]
         /\ UNCHANGED <<result, raised>>
    ELSE /\ UNCHANGED queue
         /\ Assemble(a, [f EXCEPT !.chars = get_document_characteristics(CharArgs(f))], h)

\* clauses[i:i + batch_size], positions counted from 1
BatchOf(clauses, i) == (i + 1)..Min(i + BatchSize, Len(clauses))

BatchTasks(a, clauses, i) ==
    [k \in 1..Cardinality(BatchOf(clauses, i)) |->
        Task(a, "simplify", i + k, clauses[i + k])]

Call(a) ==
    /\ a \in callers
    /\ pc[a] = "idle"
    /\ pc' = [pc EXCEPT ![a] = "parse"]
    /\ hist' = [hist EXCEPT ![a] = <<"Created">>]
    /\ queue' = Append(queue, Task(a, "parse", 1, [tag |-> "path", doc |-> doc[a]]))
    /\ UNCHANGED <<variant, callers, doc, include, frame, running, done, lastOrder,
                   faults, result, raised>>

\* step 1: parsed_doc = await self._parse_document_async(file_path)
AwaitParse(a) ==
    /\ pc[a] = "parse"
    /\ HasDone(a, "parse", 1)
    /\ LET v == ValDone(a, "parse", 1)
       IN  IF v.tag = "error"
           THEN /\ Fail(a, v, hist[a])
                /\ UNCHANGED <<frame, queue>>
           ELSE /\ frame' = [frame EXCEPT ![Frame(a)].parsed = v]
                /\ queue' = Append(queue, Task(a, "preprocess", 1, v.full_text))
                /\ pc' = [pc EXCEPT ![a] = "preprocess"]
                /\ UNCHANGED <<hist, result, raised>>
    /\ done' = [done EXCEPT ![a] = Without(@, {"parse"})]
    /\ UNCHANGED <<variant, callers, doc, include, running, lastOrder, faults>>

\* faulty variant: the clause extraction is started together with steps 3-4
GatherTasksEager(a, text) ==
    <<Task(a, "classify", 1, text), Task(a, "entities", 2, text),
      Task(a, "clauses", 1, text)>>

\* the work items of steps 3-4
GatherTasks(a, text) ==
    <<Task(a, "classify", 1, text), Task(a, "entities", 2, text)>>

\* step 2, then steps 3-4 are started: both coroutines of the gather submit
\* their work item before either future is looked at
AwaitPreprocess(a) ==
    /\ pc[a] = "preprocess"
    /\ HasDone(a, "preprocess", 1)
    /\ LET v == ValDone(a, "preprocess", 1)
       IN  IF v.tag = "error"
           THEN /\ Fail(a, v, hist[a])
                /\ UNCHANGED <<frame, queue>>
           ELSE /\ frame' = [frame EXCEPT ![Frame(a)].pre = v]
                /\ queue' = queue \o GatherTasks(a, v.cleaned_text)
                /\ pc' = [pc EXCEPT ![a] = "gather"]
                /\ hist' = [hist EXCEPT ![a] = Append(@, "Normalized")]
                /\ UNCHANGED <<result, raised>>
    /\ done' = [done EXCEPT ![a] = Without(@, {"preprocess"})]
    /\ UNCHANGED <<variant, callers, doc, include, running, lastOrder, faults>>

\* the work items of step 5: one per chunk for a large text (optimized)
ClauseTasks(a, text) ==
    IF variant = "optimized" /\ IsLarge(text.doc)
    THEN [i \in 1..Len(_chunk_text(text)) |-> Task(a, "clauses", i, _chunk_text(text)[i])]
    ELSE <<Task(a, "clauses", 1, text)>>

\* classification, entities = await asyncio.gather(...): the first exception
\* is raised at once; otherwise both results, by argument position
\* faulty variant: the gather returns when the first of the two is done
GatherReadyFirst(a) == HasDone(a, "classify", 1) \/ HasDone(a, "entities", 2)

GatherReady(a) == HasDone(a, "classify", 1) /\ HasDone(a, "entities", 2)

AwaitGather(a) ==
    /\ pc[a] = "gather"
    /\ LET errs == ErrorsOf(done[a], {"classify", "entities"})
       IN  IF errs # <<>>
           THEN /\ Fail(a, Head(errs), hist[a])
                /\ UNCHANGED <<frame, queue, lastOrder>>
           ELSE /\ GatherReady(a)
                /\ frame' = [frame EXCEPT ![Frame(a)].cls = ValDone(a, "classify", 1),
                                          ![Frame(a)].ent = ValDone(a, "entities", 2)]
                /\ queue' = queue \o ClauseTasks(a, F(a).pre.cleaned_text)
                /\ pc' = [pc EXCEPT ![a] = "clauses"]
                /\ hist' = [hist EXCEPT ![a] = Append(@, "Classified&Extracted")]
                /\ lastOrder' = [lastOrder EXCEPT ![a] = OrderOf(done[a], {"classify", "entities"})]
                /\ UNCHANGED <<result, raised>>
    /\ done' = [done EXCEPT ![a] = Without(@, {"classify", "entities"})]
    /\ UNCHANGED <<variant, callers, doc, include, running, faults>>

RECURSIVE ListsOf(_, _, _)
ListsOf(a, lo, hi) ==
    IF lo > hi THEN <<>>
    ELSE <<ValDone(a, "clauses", lo).list>> \o ListsOf(a, lo + 1, hi)

\* step 6 begins: the first batch (optimized), the first clause (minimal)
StartSimplification(a, f, h) ==
    /\ frame' = [frame EXCEPT ![Frame(a)] = [f EXCEPT !.i = 0]]
    /\ hist' = [hist EXCEPT ![a] = h]
    /\ UNCHANGED <<result, raised>>
    /\ IF variant = "optimized"
       THEN /\ queue' = queue \o BatchTasks(a, f.clauses, 0)
            /\ pc' = [pc EXCEPT ![a] = "batch"]
       ELSE /\ queue' = Append(queue, Task(a, "simplify", 1, f.clauses[1]))
            /\ pc' = [pc EXCEPT ![a] = "simplify"]

\* faulty variant: the flag is not read
simplify_whenever_clauses(inc, clauses) == clauses # <<>>

\* if include_simplification and clauses
simplification_requested(inc, clauses) == inc /\ clauses # <<>>

\* step 5: clauses = await self._extract_clauses_async(cleaned_text), then the
\* test of step 6
AwaitClauses(a) ==
    /\ pc[a] = "clauses"
    /\ LET errs == ErrorsOf(done[a], {"clauses"})
           n == Len(ClauseTasks(a, F(a).pre.cleaned_text))
       IN  IF errs # <<>>
           THEN /\ Fail(a, Head(errs), hist[a])
                /\ UNCHANGED <<frame, queue, lastOrder>>
           ELSE /\ \A i \in 1..n : HasDone(a, "clauses", i)
                /\ lastOrder' = [lastOrder EXCEPT ![a] = OrderOf(done[a], {"clauses"})]
                /\ LET lists == ListsOf(a, 1, n)
                       clauses == IF variant = "optimized" /\ IsLarge(F(a).pre.cleaned_text.doc)
                                  THEN _deduplicate_clauses(Flatten(lists))
                                  ELSE lists[1]
                       f == [F(a) EXCEPT !.clauses = clauses]
                       h == Append(hist[a], "Segmented")
                   IN  IF simplification_requested(include[a], clauses)
                       THEN StartSimplification(a, f, h)
                       ELSE Characterize(a, f, Append(h, "SimplificationSkipped"))
    /\ done' = [done EXCEPT ![a] = Without(@, {"clauses"})]
    /\ UNCHANGED <<variant, callers, doc, include, running, faults>>

\* faulty variant: the first exception of a batch ends the collection
RECURSIVE CollectUntilError(_, _, _)
CollectUntilError(a, lo, hi) ==
    IF lo > hi \/ ValDone(a, "simplify", lo).tag = "error" THEN <<>>
    ELSE <<ValDone(a, "simplify", lo)>> \o CollectUntilError(a, lo + 1, hi)

\* results of a batch by submission position, exceptions filtered out
RECURSIVE Collect(_, _, _)
Collect(a, lo, hi) ==
    IF lo > hi THEN <<>>
    ELSE (IF ValDone(a, "simplify", lo).tag = "error" THEN <<>>
          ELSE <<ValDone(a, "simplify", lo)>>) \o Collect(a, lo + 1, hi)

\* faulty variant: the gather returns when the first task of the batch is done
BatchReadyAny(a) == \E k \in BatchOf(F(a).clauses, F(a).i) : HasDone(a, "simplify", k)

\* batch_results = await asyncio.gather(*batch_tasks, return_exceptions=True)
BatchReady(a) == \A k \in BatchOf(F(a).clauses, F(a).i) : HasDone(a, "simplify", k)

\* faulty variant: the results of a batch in the order the tasks finished
RECURSIVE ValuesOf(_)
ValuesOf(ds) ==
    IF ds = <<>> THEN <<>>
    ELSE (IF Head(ds).kind # "simplify" \/ Head(ds).val.tag = "error" THEN <<>>
          ELSE <<Head(ds).val>>) \o ValuesOf(Tail(ds))

BatchResultsAsCompleted(a) == ValuesOf(done[a])

BatchResults(a) == Collect(a, F(a).i + 1, Min(F(a).i + BatchSize, Len(F(a).clauses)))

AwaitBatch(a) ==
    /\ pc[a] = "batch"
    /\ BatchReady(a)
    /\ frame' = [frame EXCEPT ![Frame(a)].simp = @ \o BatchResults(a)]
    /\ lastOrder' = [lastOrder EXCEPT ![a] = OrderOf(done[a], {"simplify"})]
    /\ done' = [done EXCEPT ![a] = Without(@, {"simplify"})]
    /\ pc' = [pc EXCEPT ![a] = "sleep"]
    /\ UNCHANGED <<variant, callers, doc, include, hist, queue, running, faults,
                   result, raised>>

\* for i in range(0, min(len(clauses), 10), batch_size)
MoreBatches(clauses, i) == i < Min(Len(clauses), SimplifyLimit)

\* await asyncio.sleep(0.1) returns: the next batch, or the end of step 6
AfterSleep(a) ==
    /\ pc[a] = "sleep"
    /\ LET i == F(a).i + BatchSize
       IN  IF MoreBatches(F(a).clauses, i)
           THEN /\ frame' = [frame EXCEPT ![Frame(a)].i = i]
                /\ queue' = queue \o BatchTasks(a, F(a).clauses, i)
                /\ pc' = [pc EXCEPT ![a] = "batch"]
                /\ UNCHANGED <<hist, result, raised>>
           ELSE Characterize(a, F(a), Append(hist[a], "Simplified"))
    /\ UNCHANGED <<variant, callers, doc, include, running, done, lastOrder, faults>>

\* MinimalLegalDocumentAnalyzer._simplify_clauses_async: clauses[:5], one at a
\* time, an exception propagates
AwaitSimplify(a) ==
    /\ pc[a] = "simplify"
    /\ HasDone(a, "simplify", F(a).i + 1)
    /\ LET v == ValDone(a, "simplify", F(a).i + 1)
           i == F(a).i + 1
           f == [F(a) EXCEPT !.simp = Append(@, v), !.i = i]
       IN  IF v.tag = "error"
           THEN /\ Fail(a, v, hist[a])
                /\ UNCHANGED <<frame, queue>>
           ELSE IF i < Min(Len(f.clauses), MinimalSimplifyLimit)
                THEN /\ frame' = [frame EXCEPT ![Frame(a)] = f]
                     /\ queue' = Append(queue, Task(a, "simplify", i + 1, f.clauses[i + 1]))
                     /\ UNCHANGED <<pc, hist, result, raised>>
                ELSE Characterize(a, f, Append(hist[a], "Simplified"))
    /\ done' = [done EXCEPT ![a] = Without(@, {"simplify"})]
    /\ UNCHANGED <<variant, callers, doc, include, running, lastOrder, faults>>

\* step 7 returns (optimized), then step 8
AwaitCharacteristics(a) ==
    /\ pc[a] = "characteristics"
    /\ HasDone(a, "characteristics", 1)
    /\ Assemble(a, [F(a) EXCEPT !.chars = ValDone(a, "characteristics", 1)], hist[a])
    /\ done' = [done EXCEPT ![a] = Without(@, {"characteristics"})]
    /\ UNCHANGED <<variant, callers, doc, include, queue, running, lastOrder, faults>>

-----------------------------------------------------------------------------

PipeStart ==
    /\ pc = [a \in Analyses |-> "idle"]
    /\ hist = [a \in Analyses |-> <<>>]
    /\ frame = [a \in Analyses |-> EmptyFrame]
    /\ queue = <<>>
    /\ running = {}
    /\ done = [a \in Analyses |-> <<>>]
    /\ lastOrder = [a \in Analyses |-> <<>>]
    /\ faults = [a \in Analyses |-> {}]
    /\ result = [a \in Analyses |-> NoVal]
    /\ raised = [a \in Analyses |-> NoVal]

\* the texts quick_analyze is called with
QuickTexts == {1, 2}

\* no stage function is being exercised on its own
FunIdle ==
    /\ ctext = <<>>
    /\ cres = NoVal
    /\ cprev = NoVal
    /\ etext = <<>>
    /\ eres = NoVal
    /\ efault = "none"
    /\ stext = <<>>
    /\ sres = NoVal
    /\ mchunks = <<>>
    /\ mres = NoVal
    /\ sclause = [str |-> TRUE, words |-> <<>>]
    /\ sout = NoVal
    /\ ntext = <<>>
    /\ nres = NoVal
    /\ ftext = 0
    /\ fres = NoVal
    /\ ktext = <<>>
    /\ kloop = [pc |-> "build", start |-> 0, chunks |-> <<>>]

\* the cache is empty and no quick_analyze call is in progress
CacheIdle ==
    /\ store = [k \in QuickTexts |-> NoVal]
    /\ now = 0
    /\ req = [r \in Requests |->
                [pc |-> "idle", text |-> 1, ret |-> NoVal, hit |-> FALSE, beside |-> {}]]
    /\ puts = [k \in QuickTexts |-> <<NoVal, NoVal>>]

\* no thread is in the constructor: the instance exists
SingletonBuilt ==
    /\ instance = 1
    /\ lock = 0
    /\ tpc = [t \in Threads |-> "done"]
    /\ obtained = [t \in Threads |-> 1]
    /\ istep = [t \in Threads |-> 0]
    /\ initialized = {1}
    /\ built = [x \in {"components", "executor"} |-> 1]

Start ==
    /\ variant \in {"optimized", "minimal"}
    /\ include \in [Analyses -> BOOLEAN]
    /\ PipeStart
    /\ SingletonBuilt
    /\ CacheIdle
    /\ FunIdle

\* one call of analyze_document, on any document
Init ==
    /\ Start
    /\ callers = {1}
    /\ doc \in [Analyses -> DocIds]
    /\ doc[2] = doc[1] /\ include[2] = include[1]

\* two calls of analyze_document on the shared instance
InitConcurrent ==
    /\ Start
    /\ callers = Analyses
    /\ doc \in [Analyses -> ConcurrentDocIds]

\* one call of analyze_document on the long document
InitLong ==
    /\ Start
    /\ callers = {1}
    /\ doc = [a \in Analyses |-> LongDocId]
    /\ include = [a \in Analyses |-> TRUE]

Next ==
    \/ (\E a \in Analyses : Call(a)) /\ UNCHANGED <<singvars, cachevars, funvars>>
    \/ (\E a \in Analyses : AwaitParse(a)) /\ UNCHANGED <<singvars, cachevars, funvars>>
    \/ (\E a \in Analyses : AwaitPreprocess(a)) /\ UNCHANGED <<singvars, cachevars, funvars>>
    \/ (\E a \in Analyses : AwaitGather(a)) /\ UNCHANGED <<singvars, cachevars, funvars>>
    \/ (\E a \in Analyses : AwaitClauses(a)) /\ UNCHANGED <<singvars, cachevars, funvars>>
    \/ (\E a \in Analyses : AwaitBatch(a)) /\ UNCHANGED <<singvars, cachevars, funvars>>
    \/ (\E a \in Analyses : AfterSleep(a)) /\ UNCHANGED <<singvars, cachevars, funvars>>
    \/ (\E a \in Analyses : AwaitSimplify(a)) /\ UNCHANGED <<singvars, cachevars, funvars>>
    \/ (\E a \in Analyses : AwaitCharacteristics(a)) /\ UNCHANGED <<singvars, cachevars, funvars>>
    \/ (WorkerStart) /\ UNCHANGED <<singvars, cachevars, funvars>>
    \/ (WorkerFinish) /\ UNCHANGED <<singvars, cachevars, funvars>>

Spec == Init /\ [][Next]_vars

SpecConcurrent == InitConcurrent /\ [][Next]_vars

SpecLong == InitLong /\ [][Next]_vars

\* one call of analyze_document on the huge document
InitHuge ==
    /\ Start
    /\ callers = {1}
    /\ doc = [a \in Analyses |-> HugeDocId]
    /\ include = [a \in Analyses |-> TRUE]

\* two calls of analyze_document on the shared instance, one of them without
\* simplification
InitShared ==
    /\ Start
    /\ callers = Analyses
    /\ doc = [a \in Analyses |-> 2]
    /\ include = [a \in Analyses |-> a = 1]

InitPool == InitHuge \/ InitShared

\* the event loop resumes a coroutine whose awaited future is done, the
\* threads of the pool run, and a stage function ends
Runs ==
    /\ \/ \E a \in Analyses :
             \/ AwaitParse(a)
             \/ AwaitPreprocess(a)
             \/ AwaitGather(a)
             \/ AwaitClauses(a)
             \/ AwaitBatch(a)
             \/ AfterSleep(a)
             \/ AwaitSimplify(a)
             \/ AwaitCharacteristics(a)
       \/ WorkerStart
       \/ WorkerFinish
    /\ UNCHANGED <<singvars, cachevars, funvars>>

SpecPool == InitPool /\ [][Next]_vars /\ WF_vars(Runs)

Ended(a) == pc[a] \in {"returned", "failed"}

\* C29: every call of analyze_document that was made ends, returned
\* (Assembled) or failed: from some point on every analysis is either not
\* called or ended, also when the chunks of a document are more than the
\* workers of the pool and when two analyses share the pool.
C29_EveryAnalysisEnds == <>[](\A a \in Analyses : pc[a] = "idle" \/ Ended(a))

\* C29 witness: the analysis of the huge document has ended after the clause
\* extraction of its chunks, and nothing is left in the pool
C29_Witness ==
    /\ variant = "optimized"
    /\ doc[1] = HugeDocId
    /\ Ended(1)
    /\ \E i \in DOMAIN hist[1] : hist[1][i] = "Segmented"
    /\ queue = <<>>
    /\ running = {}

-----------------------------------------------------------------------------
(* Construction of the orchestrator: __new__ (double-checked locking) and  *)
(* __init__, called by type.__call__ one after the other, by threads that  *)
(* can be switched between any two statements.                             *)

\* the statements of __init__ after the hasattr test, in program order
InitStatements(v) ==
    IF v = "optimized"
    THEN <<"components", "executor", "_initialized">>
    ELSE <<"executor", "_initialized", "components">>

\* line 25: if cls._instance is None
NewCheck(t) ==
    /\ tpc[t] = "call"
    /\ tpc' = [tpc EXCEPT ![t] = IF instance = 0 THEN "acquire" ELSE "return"]
    /\ UNCHANGED <<instance, lock, obtained, istep, initialized, built>>

\* line 26: with cls._lock
NewAcquire(t) ==
    /\ tpc[t] = "acquire"
    /\ lock = 0
    /\ lock' = t
    /\ tpc' = [tpc EXCEPT ![t] = "locked"]
    /\ UNCHANGED <<instance, obtained, istep, initialized, built>>

\* lines 27-28: if cls._instance is None: cls._instance = super().__new__(cls)
NewCreate(t) ==
    /\ tpc[t] = "locked"
    /\ instance' = IF instance = 0 THEN t ELSE instance
    /\ tpc' = [tpc EXCEPT ![t] = "release"]
    /\ UNCHANGED <<lock, obtained, istep, initialized, built>>

\* the with block is left
NewRelease(t) ==
    /\ tpc[t] = "release"
    /\ lock' = 0
    /\ tpc' = [tpc EXCEPT ![t] = "return"]
    /\ UNCHANGED <<instance, obtained, istep, initialized, built>>

\* line 29: return cls._instance
NewReturn(t) ==
    /\ tpc[t] = "return"
    /\ obtained' = [obtained EXCEPT ![t] = instance]
    /\ tpc' = [tpc EXCEPT ![t] = "hasattr"]
    /\ UNCHANGED <<instance, lock, istep, initialized, built>>

\* lines 32-33: if hasattr(self, '_initialized'): return
InitGuard(t) ==
    /\ tpc[t] = "hasattr"
    /\ tpc' = [tpc EXCEPT ![t] = IF obtained[t] \in initialized THEN "done" ELSE "init"]
    /\ UNCHANGED <<instance, lock, obtained, istep, initialized, built>>

\* one statement of the rest of __init__
InitStatement(t) ==
    /\ tpc[t] = "init"
    /\ LET st == InitStatements(variant)[istep[t] + 1]
       IN  /\ initialized' = IF st = "_initialized"
                             THEN initialized \cup {obtained[t]} ELSE initialized
           /\ built' = IF st = "_initialized" THEN built
                       ELSE [built EXCEPT ![st] = @ + 1]
    /\ istep' = [istep EXCEPT ![t] = @ + 1]
    /\ tpc' = [tpc EXCEPT ![t] =
                  IF istep[t] + 1 = Len(InitStatements(variant)) THEN "done" ELSE "init"]
    /\ UNCHANGED <<instance, lock, obtained>>

SingletonIdle ==
    /\ instance = 0
    /\ lock = 0
    /\ obtained = [t \in Threads |-> 0]
    /\ istep = [t \in Threads |-> 0]
    /\ initialized = {}
    /\ built = [x \in {"components", "executor"} |-> 0]

PipeIdle ==
    /\ callers = {}
    /\ doc = [a \in Analyses |-> 1]
    /\ include = [a \in Analyses |-> TRUE]
    /\ PipeStart

InitSingleton ==
    /\ variant \in {"optimized", "minimal"}
    /\ PipeIdle
    /\ CacheIdle
    /\ FunIdle
    /\ SingletonIdle
    /\ tpc = [t \in Threads |-> "call"]

NextSingleton ==
    \/ (\E t \in Threads : NewCheck(t)) /\ UNCHANGED <<pipevars, cachevars, funvars>>
    \/ (\E t \in Threads : NewAcquire(t)) /\ UNCHANGED <<pipevars, cachevars, funvars>>
    \/ (\E t \in Threads : NewCreate(t)) /\ UNCHANGED <<pipevars, cachevars, funvars>>
    \/ (\E t \in Threads : NewRelease(t)) /\ UNCHANGED <<pipevars, cachevars, funvars>>
    \/ (\E t \in Threads : NewReturn(t)) /\ UNCHANGED <<pipevars, cachevars, funvars>>
    \/ (\E t \in Threads : InitGuard(t)) /\ UNCHANGED <<pipevars, cachevars, funvars>>
    \/ (\E t \in Threads : InitStatement(t)) /\ UNCHANGED <<pipevars, cachevars, funvars>>

SpecSingleton == InitSingleton /\ [][NextSingleton]_vars

-----------------------------------------------------------------------------
(* Properties of the pipeline                                              *)

StagesSimplified ==
    <<"Created", "Normalized", "Classified&Extracted", "Segmented", "Simplified", "Assembled">>

StagesSkipped ==
    <<"Created", "Normalized", "Classified&Extracted", "Segmented",
      "SimplificationSkipped", "Assembled">>

\* the stages entered, without the final Failed
Entered(a) ==
    IF hist[a] # <<>> /\ Last(hist[a]) = "Failed"
    THEN SubSeq(hist[a], 1, Len(hist[a]) - 1)
    ELSE hist[a]

\* the work a pipeline state dispatches
WorkOf(stage) ==
    CASE stage = "Created" -> {"parse", "preprocess"}
      [] stage = "Normalized" -> {"classify", "entities"}
      [] stage = "Classified&Extracted" -> {"clauses"}
      [] stage = "Segmented" -> {"simplify"}
      [] stage \in {"Simplified", "SimplificationSkipped"} -> {"characteristics"}
      [] OTHER -> {}

PoolKinds(a) == {k \in Kinds : NumInPool(a, k) > 0}

PendingKinds(a) == PoolKinds(a) \cup {done[a][j].kind : j \in 1..Len(done[a])}

\* C1: the stages of every analysis are entered in the order Created,
\* Normalized, Classified&Extracted, Segmented, Simplified or
\* SimplificationSkipped, Assembled, none skipped or entered twice; the only
\* work queued, running or awaited is the work of the stage entered last, so
\* no stage starts before the previous one is complete, and after Assembled
\* there is none.
C1_StageOrder ==
    \A a \in Analyses :
        /\ IsPrefix(Entered(a), StagesSimplified) \/ IsPrefix(Entered(a), StagesSkipped)
        /\ hist[a] = <<>> => PendingKinds(a) = {}
        /\ hist[a] # <<>> => PendingKinds(a) \subseteq WorkOf(Last(Entered(a)))
        /\ "Assembled" \in SeqRange(hist[a]) => pc[a] = "returned" /\ PendingKinds(a) = {}

\* C1 witness: an analysis went through every stage up to Assembled
C1_Witness ==
    \E a \in Analyses : hist[a] = StagesSimplified /\ result[a] # NoVal

Mandatory == {"preprocess", "classify", "entities", "clauses"}

\* the stage a stage function completes, and where its result is awaited
StageAfter(k) ==
    CASE k = "preprocess" -> "Normalized"
      [] k \in {"classify", "entities"} -> "Classified&Extracted"
      [] OTHER -> "Segmented"

AwaitedAt(k) ==
    CASE k = "preprocess" -> "preprocess"
      [] k \in {"classify", "entities"} -> "gather"
      [] OTHER -> "clauses"

RaisedIn(a) == {f \in faults[a] : f[1] \in Mandatory /\ f[3] = "raise"}

C3_NoFailureAfterSegmented ==
    variant = "optimized" =>
        \A a \in Analyses : "Segmented" \in SeqRange(hist[a]) => pc[a] # "failed"

Originals(simp) == [j \in 1..Len(simp) |-> simp[j].original_clause]

FailedIdx(a) == {f[2] : f \in {g \in faults[a] : g[1] = "simplify"}}

\* clause positions whose batch has been collected
Collected(a) ==
    IF "Segmented" \notin SeqRange(hist[a]) THEN 0
    ELSE IF pc[a] = "batch" THEN frame[a].i
    ELSE IF include[a] THEN Min(frame[a].i + BatchSize, Len(frame[a].clauses))
    ELSE 0

C5_BatchesSequential ==
    \A a \in Analyses :
        /\ NumInPool(a, "simplify") <= BatchSize
        /\ \A t \in running \cup SeqRange(queue) :
              t.a = a /\ t.kind = "simplify" =>
                  t.idx \in BatchOf(frame[a].clauses, frame[a].i)
        /\ pc[a] = "sleep" => NumInPool(a, "simplify") = 0

\* C5 witness: the second batch is in the pool, after the first was collected
C5_Witness ==
    \E a \in Analyses :
        /\ variant = "optimized"
        /\ frame[a].i = BatchSize
        /\ Len(frame[a].simp) = BatchSize
        /\ NumInPool(a, "simplify") = 1

\* C6: simplified_clauses, read as the clauses its entries were made from,
\* is a subsequence of the input clauses: input order, one entry per clause
\* at most.
C6_ResultOrder ==
    \A a \in Analyses : IsSubSeq(Originals(frame[a].simp), frame[a].clauses)

\* C6 witness: the tasks of a batch finished in reverse order and their
\* three results were collected
C6_Witness ==
    \E a \in Analyses :
        /\ pc[a] = "sleep"
        /\ lastOrder[a] = <<3, 2, 1>>
        /\ Len(frame[a].simp) = 3

ExpectedClassification(a) ==
    IF <<"classify", 1, "fallback">> \in faults[a] THEN classify_fallback
    ELSE classify_document(CleanedText(doc[a]))

\* C7: clause segmentation is dispatched only when classification and
\* entity extraction have both completed, and the two results kept are those
\* of the classifier and of the entity extractor whichever finished first.
C7_BothBeforeSegmentation ==
    \A a \in Analyses :
        ("clauses" \in PendingKinds(a) \/ "Classified&Extracted" \in SeqRange(hist[a])) =>
            /\ NumInPool(a, "classify") = 0
            /\ NumInPool(a, "entities") = 0
            /\ frame[a].cls = ExpectedClassification(a)
            /\ frame[a].ent = analyze_document_entities(CleanedText(doc[a]))

\* C7 witness: entity extraction completed before classification and the
\* segmentation was dispatched
C7_Witness ==
    \E a \in Analyses :
        /\ pc[a] = "clauses"
        /\ lastOrder[a] = <<2, 1>>
        /\ NumInPool(a, "clauses") > 0

\* what one analysis computes from its own document when it runs alone and
\* no stage function fails
SoloClauses(v, d) ==
    IF v = "optimized" /\ IsLarge(d)
    THEN _deduplicate_clauses(Flatten(ChunkClauses(d)))
    ELSE WholeClauses(v, d)

SoloSimplified(v, d, inc) ==
    LET cl == SoloClauses(v, d)
        n == IF v = "optimized" THEN Len(cl) ELSE Min(Len(cl), MinimalSimplifyLimit)
    IN  IF inc THEN [k \in 1..n |-> simplify_clause(cl[k])] ELSE <<>>

SoloFrame(v, d, inc) ==
    LET cls == classify_document(CleanedText(d))
    IN  [parsed |-> parse_document(d),
         pre |-> preprocess_document(RawText(d)),
         cls |-> cls,
         ent |-> analyze_document_entities(CleanedText(d)),
         clauses |-> SoloClauses(v, d),
         simp |-> SoloSimplified(v, d, inc),
         chars |-> get_document_characteristics(
                      [text |-> CleanedText(d), doc_type |-> cls.predicted_type])]

SoloResult(v, d, inc) ==
    LET f == SoloFrame(v, d, inc)
    IN  AnalysisResult(f, summary_body(f.cls, f.ent, f.chars, f.pre.statistics))

\* the data of analysis a was computed from the document of analysis a
OwnData(a) ==
    LET f == frame[a]
        solo == SoloFrame(variant, doc[a], include[a])
    IN  /\ f.parsed \in {NoVal, solo.parsed}
        /\ f.pre \in {NoVal, solo.pre}
        /\ f.cls \in {NoVal, solo.cls, classify_fallback}
        /\ f.ent \in {NoVal, solo.ent}
        /\ f.clauses \in {<<>>, solo.clauses}
        /\ IsSubSeq(Originals(f.simp), solo.clauses)
        /\ f.chars \in {NoVal, solo.chars, characteristics_fallback,
                        get_document_characteristics(
                            [text |-> CleanedText(doc[a]), doc_type |-> "unknown"])}

\* C9: with two calls in progress on the shared instance, the data each call
\* works on is computed from its own document alone, and a call that returns
\* returns the result it returns when it runs alone.
C9_CallsIsolated ==
    \A a \in Analyses :
        /\ OwnData(a)
        /\ result[a] # NoVal => result[a] = SoloResult(variant, doc[a], include[a])

\* C9 witness: a call on one document returned its result while a call on
\* another document was past segmentation
C9_Witness ==
    /\ callers = Analyses
    /\ doc[1] # doc[2]
    /\ result[1] # NoVal
    /\ pc[2] \in {"simplify", "batch", "sleep", "characteristics"}
    /\ "Segmented" \in SeqRange(hist[2])

-----------------------------------------------------------------------------
(* quick_analyze and the TTL cache of its decorator, @cached(ttl=1800).    *)
(* The cache keeps, per key, the value last stored and the time it was     *)
(* stored; an entry is served while it is younger than its TTL.            *)

\* @cached(ttl=1800)
QuickTTL == 1800

\* seconds in n ticks of the clock: two ticks are one TTL
Elapsed(n) == n * (QuickTTL \div 2)

\* preprocessor.clean_text
clean_text(d) == CleanedText(d)

\* ner.extract_entities
extract_entities(text) == [tag |-> "entity_map", doc |-> text.doc]

\* how one execution of the body of quick_analyze can end: the classifier
\* absorbs its own errors, clean_text does not
QuickOutcomes == {"ok", "fallback", "raise"}

\* the body of quick_analyze
quick_analyze(d, o) ==
    IF o = "raise" THEN ErrVal("quick_analyze")
    ELSE [tag |-> "quick",
          classification |-> IF o = "fallback" THEN classify_fallback
                             ELSE classify_document(clean_text(d)),
          entities |-> extract_entities(clean_text(d)),
          word_count |-> d,
          character_count |-> d]

\* the mixed-in class has no decorator on quick_analyze
IsCached(v) == v = "optimized"

\* the key of a call: a hash of the text
cache_key(d) == d

\* an entry is served while its age is below its TTL
cache_fresh(e, t) == e # NoVal /\ Elapsed(t - e.at) < e.ttl

cache_get(c, k, t) == IF cache_fresh(c[k], t) THEN c[k].value ELSE NoVal

\* faulty variant: a fresh entry is not overwritten
cache_set_once(c, k, val, ttl, t) ==
    IF cache_fresh(c[k], t) THEN c
    ELSE [c EXCEPT ![k] = [value |-> val, at |-> t, ttl |-> ttl]]

cache_set(c, k, val, ttl, t) ==
    [c EXCEPT ![k] = [value |-> val, at |-> t, ttl |-> ttl]]

cache_clear(c) == [k \in DOMAIN c |-> NoVal]

\* the other calls that are computing the same text
Beside(r, d) == {q \in Requests \ {r} : req[q].pc = "computing" /\ req[q].text = d}

\* the wrapper is entered: a fresh entry is returned, otherwise the body runs
QuickCall(r) ==
    /\ req[r].pc = "idle"
    /\ \E d \in QuickTexts :
         LET found == IF IsCached(variant) THEN cache_get(store, cache_key(d), now)
                      ELSE NoVal
         IN  req' = [req EXCEPT ![r] =
                       IF found # NoVal
                       THEN [pc |-> "done", text |-> d, ret |-> found,
                             hit |-> TRUE, beside |-> {}]
                       ELSE [pc |-> "computing", text |-> d, ret |-> NoVal,
                             hit |-> FALSE, beside |-> Beside(r, d)]]
    /\ UNCHANGED <<store, now, puts>>

\* the body returns or raises; the wrapper stores what it returned
QuickReturn(r) ==
    /\ req[r].pc = "computing"
    /\ \E o \in QuickOutcomes :
         LET val == quick_analyze(req[r].text, o)
             k == cache_key(req[r].text)
             stored == o # "raise" /\ IsCached(variant)
         IN  /\ req' = [req EXCEPT ![r].pc = "done", ![r].ret = val]
             /\ store' = IF stored THEN cache_set(store, k, val, QuickTTL, now)
                         ELSE store
             /\ puts' = IF stored THEN [puts EXCEPT ![k] = <<puts[k][2], val>>]
                        ELSE puts
    /\ UNCHANGED now

\* the caller is done with what it got and can call again
QuickForget(r) ==
    /\ req[r].pc = "done"
    /\ req' = [req EXCEPT ![r] =
                 [pc |-> "idle", text |-> 1, ret |-> NoVal, hit |-> FALSE, beside |-> {}]]
    /\ UNCHANGED <<store, now, puts>>

\* cache.clear()
CacheClear ==
    /\ \E k \in QuickTexts : store[k] # NoVal
    /\ store' = cache_clear(store)
    /\ puts' = [k \in QuickTexts |-> <<NoVal, NoVal>>]
    /\ UNCHANGED <<now, req>>

\* time passes
Tick ==
    /\ now < MaxTicks
    /\ now' = now + 1
    /\ UNCHANGED <<store, req, puts>>

InitCache ==
    /\ variant \in {"optimized", "minimal"}
    /\ PipeIdle
    /\ SingletonBuilt
    /\ CacheIdle
    /\ FunIdle

NextCache ==
    \/ (\E r \in Requests : QuickCall(r)) /\ UNCHANGED <<pipevars, singvars, funvars>>
    \/ (\E r \in Requests : QuickReturn(r)) /\ UNCHANGED <<pipevars, singvars, funvars>>
    \/ (\E r \in Requests : QuickForget(r)) /\ UNCHANGED <<pipevars, singvars, funvars>>
    \/ CacheClear /\ UNCHANGED <<pipevars, singvars, funvars>>
    \/ Tick /\ UNCHANGED <<pipevars, singvars, funvars>>

SpecCache == InitCache /\ [][NextCache]_vars

-----------------------------------------------------------------------------
(* Properties of the construction                                          *)

\* C8 (as claimed): the threads that construct the orchestrator obtain the
\* same instance, and the worker pool and the other components of the
\* instance are constructed at most once.
C8_ConstructedOnce ==
    /\ \A t, u \in Threads :
          obtained[t] # 0 /\ obtained[u] # 0 => obtained[t] = obtained[u]
    /\ built["executor"] <= 1
    /\ built["components"] <= 1

-----------------------------------------------------------------------------
(* Properties of the cache                                                 *)

\* the entry under key k is stored and its TTL has not run out
Served(k) == store[k] # NoVal /\ Elapsed(now - store[k].at) < QuickTTL

\* call r gets an answer from the cache or starts the computation
Enters(r) == req[r].pc = "idle" /\ req'[r].pc # "idle"

\* call r ends its computation with a value
Writes(r) ==
    /\ req[r].pc = "computing"
    /\ req'[r].pc = "done"
    /\ req'[r].ret.tag # "error"
    /\ IsCached(variant)

\* C10: a call of quick_analyze for a text whose entry is stored and not
\* expired returns the stored value and leaves the cache as it is; a call
\* that finds no such entry runs the computation, whether or not another call
\* is computing the same text; an entry changes only when the cache is
\* cleared or when a computation of its text ends, and then the entry is the
\* value that computation returned.
C10_EntryServedUntilExpiryOrClear ==
    [][ /\ \A r \in Requests :
              Enters(r) =>
                 IF Served(cache_key(req'[r].text))
                 THEN /\ req'[r].pc = "done"
                      /\ req'[r].ret = store[cache_key(req'[r].text)].value
                      /\ store' = store
                 ELSE req'[r].pc = "computing"
        /\ \A r \in Requests :
              Writes(r) =>
                 /\ store'[cache_key(req[r].text)].value = req'[r].ret
                 /\ store'[cache_key(req[r].text)].at = now
        /\ \A k \in QuickTexts :
              store'[k] # store[k] =>
                 \/ store' = cache_clear(store)
                 \/ \E r \in Requests : Writes(r) /\ cache_key(req[r].text) = k
      ]_vars

\* two calls for the same text overlapped while no entry was stored, both
\* computed, their values differ, the cache holds the second, and a later
\* call got that value from the cache
C10_Witness ==
    \E k \in QuickTexts :
        /\ req[1].pc = "done" /\ req[1].hit /\ req[1].text = k
        /\ req[2].pc = "done" /\ ~req[2].hit /\ req[2].text = k
        /\ req[2].beside = {1}
        /\ puts[k][1] # NoVal
        /\ puts[k][1] # puts[k][2]
        /\ store[k].value = puts[k][2]
        /\ req[1].ret = puts[k][2]
        /\ now > store[k].at

-----------------------------------------------------------------------------
(* The classifiers: DocumentClassifier.classify_document (keywords and     *)
(* patterns, threshold on the score) and _classify_document of the         *)
(* lightweight analyzers (match occurrences, threshold on the confidence). *)
(* A text is a sequence of words of a small vocabulary; what each word     *)
(* contributes is read off the keyword and pattern tables of the source.   *)

\* words a classified text can have
MaxWords == 4

\* "recitals" stands for a block of words that match nothing
Vocabulary ==
    {"confidentiality", "employee", "salary", "lease", "tenant", "loan", "recitals"}

\* the number of words of the block
RecitalWords == 4 * 100

\* self.document_patterns, in declaration order
document_patterns(v) ==
    IF v = "optimized"
    THEN <<"nda", "employment_contract", "service_agreement", "lease_agreement",
           "purchase_agreement", "partnership_agreement", "license_agreement",
           "loan_agreement">>
    ELSE <<"nda", "employment_contract", "service_agreement", "lease_agreement",
           "purchase_agreement">>

\* the keywords of DocumentClassifier a word contains, as <<type, keyword>>
KeywordsIn(w) ==
    CASE w = "confidentiality" -> {<<"nda", "confidentiality">>}
      [] w = "employee" -> {<<"employment_contract", "employee">>}
      [] w = "salary" -> {<<"employment_contract", "salary">>}
      [] w = "lease" -> {<<"lease_agreement", "lease">>}
      [] w = "tenant" -> {<<"lease_agreement", "tenant">>}
      [] w = "loan" -> {<<"loan_agreement", "loan">>}
      [] OTHER -> {}

\* the patterns of DocumentClassifier that match in a word
PatternsIn(w) ==
    IF w = "confidentiality" THEN {<<"nda", "confidential(?:ity)?">>} ELSE {}

\* len(re.findall(pattern, text_lower)) summed over the patterns of a type
\* of the lightweight classifier, for one word
FindAll(ty, w) ==
    IF \/ ty = "nda" /\ w = "confidentiality"
       \/ ty = "employment_contract" /\ w \in {"employee", "salary"}
       \/ ty = "lease_agreement" /\ w \in {"lease", "tenant"}
    THEN 1 ELSE 0

\* len(text.split())
RECURSIVE WordCount(_)
WordCount(text) ==
    IF text = <<>> THEN 0
    ELSE (IF text[1] = "recitals" THEN RecitalWords ELSE 1) + WordCount(Tail(text))

matched_keywords(ty, text) ==
    {k[2] : k \in {m \in UNION {KeywordsIn(text[i]) : i \in 1..Len(text)} : m[1] = ty}}

matched_patterns(ty, text) ==
    {k[2] : k \in {m \in UNION {PatternsIn(text[i]) : i \in 1..Len(text)} : m[1] = ty}}

RECURSIVE Occurrences(_, _)
Occurrences(ty, text) ==
    IF text = <<>> THEN 0 ELSE FindAll(ty, text[1]) + Occurrences(ty, Tail(text))

\* faulty variant: the score is assigned where it should be accumulated
score_assigned(v, ty, text) ==
    IF v = "optimized"
    THEN (IF matched_keywords(ty, text) = {} THEN 0 ELSE 1)
         + (IF matched_patterns(ty, text) = {} THEN 0 ELSE 2)
    ELSE IF Occurrences(ty, text) = 0 THEN 0 ELSE 1

\* the score of a type: 1 per keyword that occurs, 2 per pattern that
\* matches, weight 1.0; or 1 per match of the lightweight classifier
score_of(v, ty, text) ==
    IF v = "optimized"
    THEN Cardinality(matched_keywords(ty, text))
         + 2 * Cardinality(matched_patterns(ty, text))
    ELSE Occurrences(ty, text)

RECURSIVE MaxScan(_, _, _, _, _)
MaxScan(reg, sc, i, best, last) ==
    IF i > Len(reg) THEN best
    ELSE MaxScan(reg, sc, i + 1,
                 IF sc[reg[i]] > sc[best] \/ (last /\ sc[reg[i]] = sc[best])
                 THEN reg[i] ELSE best,
                 last)

\* faulty variant: of equal scores the last one wins
max_last(reg, sc) == MaxScan(reg, sc, 2, reg[1], TRUE)

\* max(..., key=score): the first item with the largest score
max_first(reg, sc) == MaxScan(reg, sc, 2, reg[1], FALSE)

\* min(x / y, 1.0) as a fraction
Clamped(x, y) == IF x >= y THEN <<1, 1>> ELSE <<x, y>>

\* threshold = 2.0
ScoreThreshold == 2

\* DocumentClassifier.classify_document
classify_full(text) ==
    LET reg == document_patterns("optimized")
        sc == [ty \in SeqRange(reg) |-> score_of("optimized", ty, text)]
        best == max_first(reg, sc)
        is_confident == sc[best] >= ScoreThreshold
    IN  [tag |-> "classification",
         predicted_type |-> IF is_confident THEN best ELSE "unknown",
         confidence |-> Clamped(sc[best], 10),
         is_confident |-> is_confident,
         scores |-> [ty \in SeqRange(reg) |->
                        [score |-> sc[ty],
                         matched_keywords |-> matched_keywords(ty, text),
                         matched_patterns |-> matched_patterns(ty, text)]],
         matched_indicators |-> [keywords |-> matched_keywords(best, text),
                                 patterns |-> matched_patterns(best, text)]]

\* MinimalLegalDocumentAnalyzer._classify_document; the division by
\* len(text.split()) / 100 raises ZeroDivisionError for a text without words
classify_light(text) ==
    LET reg == document_patterns("minimal")
        sc == [ty \in SeqRange(reg) |-> score_of("minimal", ty, text)]
        best == max_first(reg, sc)
    IN  IF WordCount(text) = 0 THEN ErrVal("ZeroDivisionError")
        ELSE [tag |-> "classification",
              predicted_type |-> best,
              confidence |-> Clamped(sc[best] * 100, WordCount(text)),
              is_confident |-> sc[best] * 1000 > 3 * WordCount(text),
              scores |-> [ty \in SeqRange(reg) |-> [score |-> sc[ty]]]]

Classify(v, text) == IF v = "optimized" THEN classify_full(text) ELSE classify_light(text)

\* a word is added to the text
AddWord(w) ==
    /\ Len(ctext) < MaxWords
    /\ ctext' = Append(ctext, w)
    /\ cprev' = IF cres # NoVal /\ cres.tag = "classification"
                THEN [text |-> ctext, res |-> cres] ELSE NoVal
    /\ cres' = NoVal

\* the text is classified
ClassifyText ==
    /\ cres = NoVal
    /\ cres' = Classify(variant, ctext)
    /\ UNCHANGED <<ctext, cprev>>

\* the same text is classified once more
ClassifyAgain ==
    /\ cres # NoVal
    /\ cres.tag = "classification"
    /\ cprev' = [text |-> ctext, res |-> cres]
    /\ cres' = Classify(variant, ctext)
    /\ UNCHANGED ctext

InitClassifier ==
    /\ variant \in {"optimized", "minimal"}
    /\ PipeIdle
    /\ SingletonBuilt
    /\ CacheIdle
    /\ FunIdle

NextClassifier ==
    \/ (\E w \in Vocabulary : AddWord(w)) /\ UNCHANGED <<pipevars, singvars, cachevars, nervars, segvars, simpvars, normvars, fixvars, chunkvars>>
    \/ ClassifyText /\ UNCHANGED <<pipevars, singvars, cachevars, nervars, segvars, simpvars, normvars, fixvars, chunkvars>>
    \/ ClassifyAgain /\ UNCHANGED <<pipevars, singvars, cachevars, nervars, segvars, simpvars, normvars, fixvars, chunkvars>>

SpecClassifier == InitClassifier /\ [][NextClassifier]_vars

-----------------------------------------------------------------------------
(* Properties of the classifiers                                           *)

Classified == cres # NoVal /\ cres.tag = "classification"

\* position of a type in the registry
RegistryIndex(ty) ==
    CHOOSE i \in 1..Len(document_patterns(variant)) : document_patterns(variant)[i] = ty

\* C11: a type that classify reports has the maximum score, and every type
\* with the same score is declared after it in the registry; classifying the
\* same text again gives the same result.
C11_TieBreakEarliest ==
    Classified =>
        /\ cres.predicted_type # "unknown" =>
              \A ty \in DOMAIN cres.scores :
                 /\ cres.scores[ty].score <= cres.scores[cres.predicted_type].score
                 /\ cres.scores[ty].score = cres.scores[cres.predicted_type].score
                       => RegistryIndex(cres.predicted_type) <= RegistryIndex(ty)
        /\ (cprev # NoVal /\ cprev.text = ctext) => cprev.res = cres

\* C11 witness: employment_contract and lease_agreement share the maximum
\* score 2, the earlier one is reported, twice
C11_Witness ==
    /\ Classified
    /\ variant = "optimized"
    /\ cres.scores["employment_contract"].score = 2
    /\ cres.scores["lease_agreement"].score = 2
    /\ cres.scores["nda"].score = 0
    /\ cres.predicted_type = "employment_contract"
    /\ cprev # NoVal
    /\ cprev.text = ctext

\* C12 (as claimed): when the classification is not confident, the reported
\* type is "unknown" and the score detail of every registered type is there.
C12_UnknownBelowThreshold ==
    (Classified /\ ~cres.is_confident) =>
        /\ cres.predicted_type = "unknown"
        /\ DOMAIN cres.scores = SeqRange(document_patterns(variant))

\* the type whose keyword was added last
Owner(w) ==
    CASE w = "confidentiality" -> "nda"
      [] w \in {"employee", "salary"} -> "employment_contract"
      [] w \in {"lease", "tenant"} -> "lease_agreement"
      [] w = "loan" -> "loan_agreement"
      [] OTHER -> "none"

\* the last word made one more keyword of its type match
MoreMatched ==
    /\ Classified
    /\ cprev # NoVal
    /\ Len(ctext) = Len(cprev.text) + 1
    /\ ctext = Append(cprev.text, Last(ctext))
    /\ Owner(Last(ctext)) \in DOMAIN cres.scores
    /\ IF variant = "optimized"
       THEN cprev.res.scores[Owner(Last(ctext))].matched_keywords
               # cres.scores[Owner(Last(ctext))].matched_keywords
       ELSE FindAll(Owner(Last(ctext)), Last(ctext)) > 0

\* C13: when one more keyword of a type T matches, the score of T is
\* strictly larger, the other scores are the same, and the reported type is
\* what it was or T.
C13_Monotone ==
    MoreMatched =>
        LET T == Owner(Last(ctext))
        IN  /\ cres.scores[T].score > cprev.res.scores[T].score
            /\ \A ty \in DOMAIN cres.scores \ {T} :
                  cres.scores[ty].score = cprev.res.scores[ty].score
            /\ cres.predicted_type \in {cprev.res.predicted_type, T}

\* C13 witness: a second lease keyword moved the reported type from
\* employment_contract to lease_agreement
C13_Witness ==
    /\ MoreMatched
    /\ Owner(Last(ctext)) = "lease_agreement"
    /\ cprev.res.predicted_type = "employment_contract"
    /\ cres.predicted_type = "lease_agreement"

-----------------------------------------------------------------------------
(* The entity extractors: LegalNER.extract_entities and _extract_entities  *)
(* of the lightweight analyzers.  A text is a sequence of tokens, each of  *)
(* which is matched by one pattern of one entity family.                   *)

\* tokens of a text given to the extractors
MaxTokens == 3

EntityTokens == {"a@b.com", "A@B.COM", "$100", "100 dollars", "100 DOLLARS"}

\* str.lower
Lower(w) ==
    CASE w = "A@B.COM" -> "a@b.com"
      [] w = "100 DOLLARS" -> "100 dollars"
      [] OTHER -> w

\* self.patterns of LegalNER and self.entity_patterns, in declaration order
Families(v) ==
    IF v = "optimized"
    THEN <<"dates", "monetary_values", "parties", "addresses", "phone_numbers",
           "email_addresses", "legal_terms", "obligations", "durations">>
    ELSE <<"monetary_values", "dates", "percentages", "phone_numbers",
           "email_addresses">>

\* patterns per family
NumPatterns(v, f) ==
    IF v # "optimized" THEN 1
    ELSE CASE f \in {"dates", "monetary_values"} -> 3
           [] f \in {"parties", "phone_numbers", "durations"} -> 2
           [] OTHER -> 1

\* the family and the pattern that match a token (IGNORECASE)
MatchedBy(v, w) ==
    CASE w \in {"a@b.com", "A@B.COM"} -> <<"email_addresses", 1>>
      [] w = "$100" -> <<"monetary_values", 1>>
      [] v = "optimized" /\ w \in {"100 dollars", "100 DOLLARS"} -> <<"monetary_values", 2>>
      [] OTHER -> <<"none", 0>>

\* re.finditer(pattern, text): the matches of one pattern, in text order
RECURSIVE finditer(_, _, _, _, _)
finditer(v, f, p, text, i) ==
    IF i > Len(text) THEN <<>>
    ELSE (IF MatchedBy(v, text[i]) = <<f, p>>
          THEN <<[text |-> text[i], start |-> i]>> ELSE <<>>)
         \o finditer(v, f, p, text, i + 1)

\* the matches of all patterns of a family, pattern by pattern
RECURSIVE FamilyMatches(_, _, _, _)
FamilyMatches(v, f, p, text) ==
    IF p > NumPatterns(v, f) THEN <<>>
    ELSE finditer(v, f, p, text, 1) \o FamilyMatches(v, f, p + 1, text)

\* "Avoid duplicates": a match is appended unless an entity with the same
\* lower-cased text is there already
RECURSIVE AvoidDuplicates(_, _)
AvoidDuplicates(kept, rest) ==
    IF rest = <<>> THEN kept
    ELSE AvoidDuplicates(
            IF \E j \in 1..Len(kept) : Lower(kept[j].text) = Lower(rest[1].text)
            THEN kept ELSE Append(kept, rest[1]),
            Tail(rest))

\* the sequences that list every element of a set once
Orderings(S) ==
    {q \in [1..Cardinality(S) -> S] : \A x \in S : \E j \in DOMAIN q : q[j] = x}

\* LegalNER.extract_entities without a failure
ner_extract(text) ==
    [f \in SeqRange(Families("optimized")) |->
        AvoidDuplicates(<<>>, FamilyMatches("optimized", f, 1, text))]

\* the elements of S in the order they have in the sequence ord
RECURSIVE InOrder(_, _)
InOrder(ord, S) ==
    IF ord = <<>> THEN <<>>
    ELSE (IF ord[1] \in S THEN <<ord[1]>> ELSE <<>>) \o InOrder(Tail(ord), S)

\* the results _extract_entities can return: set(matches) has no order
light_extract(text) ==
    LET found(f) == {m.text : m \in SeqRange(FamilyMatches("minimal", f, 1, text))}
    IN  {[f \in SeqRange(Families("minimal")) |-> InOrder(ord, found(f))] :
            ord \in Orderings(EntityTokens)}

AsRecords(r) ==
    [f \in DOMAIN r |-> [j \in DOMAIN r[f] |-> [text |-> r[f][j], type |-> f]]]

\* a token is added to the text
AddToken(w) ==
    /\ eres = NoVal
    /\ Len(etext) < MaxTokens
    /\ etext' = Append(etext, w)
    /\ UNCHANGED <<eres, efault>>

\* the extractor runs and no family fails
Extract ==
    /\ eres = NoVal
    /\ IF variant = "optimized"
       THEN eres' = [tag |-> "entities", map |-> ner_extract(etext)]
       ELSE \E r \in light_extract(etext) :
               eres' = [tag |-> "entities", map |-> AsRecords(r)]
    /\ UNCHANGED <<etext, efault>>

\* the extractor runs and the extraction of family f raises: the handler of
\* extract_entities returns {}, _extract_entities has no handler
ExtractFailing(f) ==
    /\ eres = NoVal
    /\ f \in SeqRange(Families(variant))
    /\ eres' = IF variant = "optimized"
               THEN [tag |-> "entities", map |-> <<>>]
               ELSE ErrVal("entities")
    /\ efault' = f
    /\ UNCHANGED etext

\* the caller is done with the result
ExtractorReset ==
    /\ eres # NoVal
    /\ etext' = <<>>
    /\ eres' = NoVal
    /\ efault' = "none"

InitEntities ==
    /\ variant \in {"optimized", "minimal"}
    /\ PipeIdle
    /\ SingletonBuilt
    /\ CacheIdle
    /\ FunIdle

AllFamilies == SeqRange(Families("optimized")) \cup SeqRange(Families("minimal"))

NextEntities ==
    \/ (\E w \in EntityTokens : AddToken(w)) /\ UNCHANGED <<pipevars, singvars, cachevars, clsvars, segvars, simpvars, normvars, fixvars, chunkvars>>
    \/ Extract /\ UNCHANGED <<pipevars, singvars, cachevars, clsvars, segvars, simpvars, normvars, fixvars, chunkvars>>
    \/ (\E f \in AllFamilies : ExtractFailing(f)) /\ UNCHANGED <<pipevars, singvars, cachevars, clsvars, segvars, simpvars, normvars, fixvars, chunkvars>>
    \/ ExtractorReset /\ UNCHANGED <<pipevars, singvars, cachevars, clsvars, segvars, simpvars, normvars, fixvars, chunkvars>>

SpecEntities == InitEntities /\ [][NextEntities]_vars

-----------------------------------------------------------------------------
(* Properties of the entity extractors                                     *)

Extracted == eres # NoVal /\ eres.tag = "entities"

\* C14 (as claimed): no family of one result has two entities whose texts
\* are equal ignoring case.
C14_UniqueIgnoringCase ==
    Extracted =>
        \A f \in DOMAIN eres.map : \A i, j \in DOMAIN eres.map[f] :
            Lower(eres.map[f][i].text) = Lower(eres.map[f][j].text) => i = j

\* what the extractor returns for the text when nothing fails
NormalFamily(f) ==
    IF variant = "optimized"
    THEN {ner_extract(etext)[f]}
    ELSE {AsRecords(r)[f] : r \in light_extract(etext)}

\* C15 (as claimed): the extractor does not raise, and when the extraction
\* of one family failed that family is empty in the result and every other
\* family is what it is without the failure.
C15_FailureConfinedToFamily ==
    (eres # NoVal /\ efault # "none") =>
        /\ eres.tag = "entities"
        /\ DOMAIN eres.map = SeqRange(Families(variant))
        /\ eres.map[efault] = <<>>
        /\ \A f \in DOMAIN eres.map \ {efault} : eres.map[f] \in NormalFamily(f)

-----------------------------------------------------------------------------
(* Clause segmentation: DocumentParser.extract_clauses (used by the        *)
(* optimized orchestrator) and _extract_clauses of the lightweight         *)
(* analyzer.  A text is a sequence of pieces; a piece is a run of          *)
(* characters without separators, of a given length, and all pieces but    *)
(* the first are preceded by a separator.                                  *)

\* pieces of a text with free separators and lengths
MaxPieces == 3

\* pieces of a text made of equal sentences
MaxSentences == 12

\* len(clause) > 50
MinClauseLength == 50

\* clauses[:10]
MaxClauses == 10

PieceLengths == {MinClauseLength - 40, MinClauseLength, MinClauseLength + 10}

\* the separators a text can hold: the clause indicators of the parser, or
\* a numbered marker, a lettered marker and a blank line
Separators(v) ==
    IF v = "optimized" THEN {"\n\n", ". ", "; "} ELSE {"\n1. ", "\na) ", "\n\n"}

SepLen(sep) ==
    CASE sep \in {"\n1. ", "\na) ", " 1. ", " a) "} -> 4
      [] sep = " " -> 1
      [] OTHER -> 2

\* the separator of a text of equal sentences
SentenceSep(v) == IF v = "optimized" THEN ". " ELSE "\n1. "

\* str.split / re.split: the parts, as <<first piece, last piece>>; the
\* empty text has one empty part
RECURSIVE SplitFrom(_, _, _, _)
SplitFrom(text, sep, lo, i) ==
    IF i > Len(text) THEN << <<lo, Len(text)>> >>
    ELSE IF text[i].sep = sep
         THEN << <<lo, i - 1>> >> \o SplitFrom(text, sep, i, i + 1)
         ELSE SplitFrom(text, sep, lo, i + 1)

Split(text, sep) == SplitFrom(text, sep, 1, 2)

\* len(part.strip())
RECURSIVE PartLen(_, _, _)
PartLen(text, lo, hi) ==
    IF hi < lo THEN 0
    ELSE text[hi].len
         + (IF hi > lo THEN SepLen(text[hi].sep) + PartLen(text, lo, hi - 1) ELSE 0)

\* the parts that are not empty, as clauses of a strategy
NonEmpty(parts, by) ==
    LET keep == {j \in DOMAIN parts : parts[j][2] >= parts[j][1]}
        acc[j \in 0..Len(parts)] ==
            IF j = 0 THEN <<>>
            ELSE IF j \in keep
                 THEN Append(acc[j - 1], [lo |-> parts[j][1], hi |-> parts[j][2], by |-> by])
                 ELSE acc[j - 1]
    IN  acc[Len(parts)]

\* [clause for clause in clauses if len(clause) > 50]
RECURSIVE Meaningful(_, _)
Meaningful(text, clauses) ==
    IF clauses = <<>> THEN <<>>
    ELSE (IF PartLen(text, clauses[1].lo, clauses[1].hi) > MinClauseLength
          THEN <<clauses[1]>> ELSE <<>>)
         \o Meaningful(text, Tail(clauses))

\* the clause indicators of the parser, in order
clause_indicators == <<"\n\n", ". ", "; ">>

\* the loop over the indicators: the first that splits the text wins
RECURSIVE FirstSplit(_, _)
FirstSplit(text, i) ==
    IF i > Len(clause_indicators) THEN <<>>
    ELSE IF Len(Split(text, clause_indicators[i])) > 1
         THEN NonEmpty(Split(text, clause_indicators[i]), clause_indicators[i])
         ELSE FirstSplit(text, i + 1)

\* DocumentParser.extract_clauses
parser_extract_clauses(text) ==
    LET found == FirstSplit(text, 1)
        clauses == IF found = <<>>
                   THEN <<[lo |-> 1, hi |-> Len(text), by |-> "whole"]>>
                   ELSE found
        meaningful == Meaningful(text, clauses)
    IN  IF meaningful # <<>> THEN meaningful ELSE clauses

\* the sections after the first marker, for one kind of marker
Sections(text, marker) ==
    IF Len(Split(text, marker)) > 1
    THEN NonEmpty(Tail(Split(text, marker)), marker)
    ELSE <<>>

\* MinimalLegalDocumentAnalyzer._extract_clauses
_extract_clauses(text) ==
    LET sections == Sections(text, "\n1. ") \o Sections(text, "\na) ")
        clauses == IF sections # <<>> THEN sections
                   ELSE Meaningful(text, NonEmpty(Split(text, "\n\n"), "\n\n"))
    IN  SubSeq(clauses, 1, Min(Len(clauses), MaxClauses))

segment(v, text) ==
    IF v = "optimized" THEN parser_extract_clauses(text) ELSE _extract_clauses(text)

\* the strategies of a segmenter, in the order they are tried
Chain(v) == IF v = "optimized" THEN clause_indicators ELSE <<"\n1. ", "\na) ", "\n\n">>

\* a piece is added to the text
AddPiece(sep, n) ==
    /\ sres = NoVal
    /\ Len(stext) < MaxPieces
    /\ sep \in Separators(variant)
    /\ stext' = Append(stext, [sep |-> IF stext = <<>> THEN "" ELSE sep, len |-> n])
    /\ UNCHANGED <<sres, mchunks, mres>>

EqualSentences(text) ==
    \A i \in DOMAIN text :
        /\ text[i].len = MinClauseLength + 10
        /\ i > 1 => text[i].sep = SentenceSep(variant)

\* one more sentence is added to a text of equal sentences
AddSentence ==
    /\ sres = NoVal
    /\ Len(stext) >= MaxPieces
    /\ Len(stext) < MaxSentences
    /\ EqualSentences(stext)
    /\ stext' = Append(stext, [sep |-> SentenceSep(variant), len |-> MinClauseLength + 10])
    /\ UNCHANGED <<sres, mchunks, mres>>

\* the text is segmented
Segment ==
    /\ sres = NoVal
    /\ sres' = [tag |-> "clauses", list |-> segment(variant, stext)]
    /\ UNCHANGED <<stext, mchunks, mres>>

InitSegment ==
    /\ variant \in {"optimized", "minimal"}
    /\ PipeIdle
    /\ SingletonBuilt
    /\ CacheIdle
    /\ FunIdle

AllSeparators == Separators("optimized") \cup Separators("minimal")

NextSegment ==
    \/ (\E sep \in AllSeparators, n \in PieceLengths : AddPiece(sep, n))
          /\ UNCHANGED <<pipevars, singvars, cachevars, clsvars, nervars, simpvars, normvars, fixvars, chunkvars>>
    \/ AddSentence /\ UNCHANGED <<pipevars, singvars, cachevars, clsvars, nervars, simpvars, normvars, fixvars, chunkvars>>
    \/ Segment /\ UNCHANGED <<pipevars, singvars, cachevars, clsvars, nervars, simpvars, normvars, fixvars, chunkvars>>

SpecSegment == InitSegment /\ [][NextSegment]_vars

-----------------------------------------------------------------------------
(* Properties of the segmentation                                          *)

Segmented == sres # NoVal

\* position of a strategy in the chain
ChainIndex(by) == CHOOSE i \in 1..Len(Chain(variant)) : Chain(variant)[i] = by

\* C16 (as claimed): the clauses returned come from one strategy, which is
\* the first of the chain that splits the text into more than one part.
C16_OneStrategy ==
    Segmented =>
        \A i, j \in DOMAIN sres.list :
            /\ sres.list[i].by = sres.list[j].by
            /\ sres.list[i].by # "whole" =>
                  /\ Len(Split(stext, sres.list[i].by)) > 1
                  /\ \A k \in 1..(ChainIndex(sres.list[i].by) - 1) :
                        Len(Split(stext, Chain(variant)[k])) <= 1

\* the candidate clauses of the text: the parts of the first strategy that
\* splits it (after the first marker, for sections), or the whole text
Candidates ==
    LET first == {k \in 1..Len(Chain(variant)) : Len(Split(stext, Chain(variant)[k])) > 1}
    IN  IF first = {}
        THEN <<[lo |-> 1, hi |-> Len(stext), by |-> "whole"]>>
        ELSE LET k == CHOOSE m \in first : \A n \in first : m <= n
                 by == Chain(variant)[k]
             IN  IF by \in {"\n1. ", "\na) "}
                 THEN NonEmpty(Tail(Split(stext, by)), by)
                 ELSE NonEmpty(Split(stext, by), by)

Spans(clauses) == [j \in DOMAIN clauses |-> <<clauses[j].lo, clauses[j].hi>>]

RECURSIVE LongEnough(_, _)
LongEnough(text, clauses) ==
    IF clauses = <<>> THEN <<>>
    ELSE (IF PartLen(text, clauses[1].lo, clauses[1].hi) >= MinClauseLength
          THEN <<clauses[1]>> ELSE <<>>)
         \o LongEnough(text, Tail(clauses))

\* C17 (as claimed): the result is the candidates of 50 characters or more,
\* or all candidates when none has 50 characters.
C17_ShortClausesDiscarded ==
    (Segmented /\ Len(Candidates) <= MaxClauses) =>
        Spans(sres.list) =
            IF LongEnough(stext, Candidates) # <<>>
            THEN Spans(LongEnough(stext, Candidates))
            ELSE Spans(Candidates)

\* C18 (as claimed): segmentation returns at most max_clauses clauses.
C18_AtMostMaxClauses ==
    Segmented => Len(sres.list) <= MaxClauses

-----------------------------------------------------------------------------
(* The large-document path of _extract_clauses_async: the clause lists of  *)
(* the chunks are flattened in chunk order and deduplicated.               *)

\* chunks of a large text
MaxChunks == 2

\* clauses found in all chunks together
MaxFound == 3

\* clauses by their first 100 characters and what follows them
ChunkClauseSet ==
    {[tag |-> "clause", start |-> st, rest |-> r] : st \in {"A", "A ", "B"}, r \in {1, 2}}

\* the next chunk is segmented
AddChunk ==
    /\ mres = NoVal
    /\ Len(mchunks) < MaxChunks
    /\ mchunks' = Append(mchunks, <<>>)
    /\ UNCHANGED <<mres, stext, sres>>

\* a clause is found in the last chunk
FindClause(c) ==
    /\ mres = NoVal
    /\ mchunks # <<>>
    /\ Len(Flatten(mchunks)) < MaxFound
    /\ mchunks' = [mchunks EXCEPT ![Len(mchunks)] = Append(@, c)]
    /\ UNCHANGED <<mres, stext, sres>>

\* "Flatten and deduplicate clauses"
Merge ==
    /\ mres = NoVal
    /\ mchunks # <<>>
    /\ mres' = [tag |-> "clauses", list |-> _deduplicate_clauses(Flatten(mchunks))]
    /\ UNCHANGED <<mchunks, stext, sres>>

InitMerge ==
    /\ variant = "optimized"
    /\ PipeIdle
    /\ SingletonBuilt
    /\ CacheIdle
    /\ FunIdle

NextMerge ==
    \/ AddChunk /\ UNCHANGED <<pipevars, singvars, cachevars, clsvars, nervars, simpvars, normvars, fixvars, chunkvars>>
    \/ (\E c \in ChunkClauseSet : FindClause(c))
          /\ UNCHANGED <<pipevars, singvars, cachevars, clsvars, nervars, simpvars, normvars, fixvars, chunkvars>>
    \/ Merge /\ UNCHANGED <<pipevars, singvars, cachevars, clsvars, nervars, simpvars, normvars, fixvars, chunkvars>>

SpecMerge == InitMerge /\ [][NextMerge]_vars

\* C19: in the merged list no two clauses have the same first 100
\* characters, every clause is the first of the candidates, in chunk
\* order, that start with its first 100 characters, and the clauses are in
\* the order the candidates had.
C19_MergedPrefixesUnique ==
    mres # NoVal =>
        LET all == Flatten(mchunks)
            merged == mres.list
        IN  /\ \A i, j \in DOMAIN merged : merged[i].start = merged[j].start => i = j
            /\ \A j \in DOMAIN merged :
                  \E m \in DOMAIN all :
                     /\ all[m] = merged[j]
                     /\ \A n \in 1..(m - 1) : all[n].start # merged[j].start
            /\ IsSubSeq(merged, all)

\* C19 witness: a clause of the second chunk starts like a clause of the
\* first chunk and continues differently; the first is kept, the second is
\* not, and a clause after it is
C19_Witness ==
    /\ mres # NoVal
    /\ Len(mchunks) = 2
    /\ Len(mchunks[1]) = 1
    /\ Len(mchunks[2]) = 2
    /\ mchunks[2][1].start = mchunks[1][1].start
    /\ mchunks[2][1].rest # mchunks[1][1].rest
    /\ mres.list = <<mchunks[1][1], mchunks[2][2]>>

-----------------------------------------------------------------------------
(* The clause simplifiers: FallbackSimplifier (rules) and GraniteSimplifier *)
(* (a language model, with rules when the model fails).  A text is a        *)
(* sequence of words; a clause is a text or a value that is not a string.   *)

\* words of a clause
MaxClauseWords == 4

ClauseWords == {"shall", "heretofore", "hereby", "rent", "$100", "30 days", "5%", "if"}

\* the prompt around the clause, as one token
PromptText == <<"<prompt>">>

\* what the language model may answer
GeneratedTexts == {<<"rent">>, <<"will", "rent", "until", "now">>}

\* the words and the letters of a token
Measure(w) ==
    CASE w = "<prompt>"       -> [words |-> 55, letters |-> 281]
      [] w = "This clause means:" -> [words |-> 3, letters |-> 16]
      [] w = "30 days"        -> [words |-> 2, letters |-> 6]
      [] w \in {"by", "5%", "if"} -> [words |-> 1, letters |-> 2]
      [] w = "now"            -> [words |-> 1, letters |-> 3]
      [] w \in {"will", "rent", "this", "$100"} -> [words |-> 1, letters |-> 4]
      [] w \in {"shall", "until"} -> [words |-> 1, letters |-> 5]
      [] w \in {"hereby", "before"} -> [words |-> 1, letters |-> 6]
      [] w = "document"       -> [words |-> 1, letters |-> 8]
      [] w = "heretofore"     -> [words |-> 1, letters |-> 10]

RECURSIVE NumWords(_)
NumWords(text) == IF text = <<>> THEN 0 ELSE Measure(Head(text)).words + NumWords(Tail(text))

RECURSIVE NumLetters(_)
NumLetters(text) ==
    IF text = <<>> THEN 0 ELSE Measure(Head(text)).letters + NumLetters(Tail(text))

\* len(text) of a stripped text: the letters and one space between words
NumChars(text) == IF text = <<>> THEN 0 ELSE NumLetters(text) + NumWords(text) - 1

\* FallbackSimplifier.simplification_rules; of the two entries for
\* "heretofore" in the dict display the second value stays
simplification_rules(w) ==
    CASE w = "shall"      -> <<"will">>
      [] w = "heretofore" -> <<"until", "now">>
      [] OTHER            -> <<w>>

\* MinimalLegalDocumentAnalyzer.simplification_rules
minimal_rules(w) ==
    CASE w = "shall"      -> <<"will">>
      [] w = "heretofore" -> <<"before", "this">>
      [] OTHER            -> <<w>>

\* GraniteSimplifier._fallback_simplification.replacements
replacements(w) ==
    CASE w = "shall"  -> <<"will">>
      [] w = "hereby" -> <<"by", "this", "document">>
      [] OTHER        -> <<w>>

RECURSIVE Rewrite(_, _)
Rewrite(table, text) ==
    IF text = <<>> THEN <<>>
    ELSE (CASE table = "rules"   -> simplification_rules(Head(text))
            [] table = "minimal" -> minimal_rules(Head(text))
            [] OTHER             -> replacements(Head(text)))
            \o Rewrite(table, Tail(text))

_apply_simplification_rules(text) == Rewrite("rules", text)

_fallback_simplification(text) == Rewrite("replacements", text)

RECURSIVE GCD(_, _)
GCD(a, b) == IF b = 0 THEN a ELSE GCD(b, a % b)

\* a score, as a fraction in lowest terms
Ratio(n, d) == [num |-> n \div GCD(n, d), den |-> d \div GCD(n, d)]

\* faulty variant: the score is not clamped
ScoreUnclamped(original, simplified, a, b, c) ==
    LET ow == NumWords(original)
        ol == NumLetters(original)
        sw == NumWords(simplified)
        sl == NumLetters(simplified)
    IN  IF ow = 0 THEN [num |-> 0, den |-> 1]
        ELSE IF sw = 0 THEN [num |-> 1, den |-> 1]
        ELSE [num |-> a * (ow - sw) * sw * ol + b * (sw * ol - sl * ow) * ow,
              den |-> c * ow * sw * ol]

\* _calculate_simplification_score: (a * word_reduction + b *
\* complexity_reduction) / c, clamped to [0, 1]
Score(original, simplified, a, b, c) ==
    LET ow == NumWords(original)
        ol == NumLetters(original)
        sw == NumWords(simplified)
        sl == NumLetters(simplified)
        n  == a * (ow - sw) * sw * ol + b * (sw * ol - sl * ow) * ow
        d  == c * ow * sw * ol
    IN  IF ow = 0 THEN Ratio(0, 1)
        ELSE IF sw = 0 THEN Ratio(1, 1)
        ELSE IF n <= 0 THEN Ratio(0, 1)
        ELSE IF n >= d THEN Ratio(1, 1)
        ELSE Ratio(n, d)

\* text contains one of the words
Has(text, words) == \E i \in DOMAIN text : text[i] \in words

\* FallbackSimplifier._generate_plain_english_summary; of the keywords of
\* the cascade ClauseWords has "$"
_generate_plain_english_summary(text) ==
    IF Has(text, {"$100"}) THEN <<"This clause deals with payment terms and amounts.">>
    ELSE IF NumChars(text) > 20 THEN <<"In simple terms:">> \o text
    ELSE <<"This clause contains important legal terms and conditions.">>

\* MinimalLegalDocumentAnalyzer._generate_plain_english_summary
minimal_summary(text) ==
    IF Has(text, {"$100"}) THEN <<"This clause deals with payment terms and amounts.">>
    ELSE <<"This clause contains important legal terms and conditions.">>

\* the scans of _extract_key_points, in the order the code runs them; each
\* appends one entry when it finds something
Scan(text, category, words) == IF Has(text, words) THEN <<category>> ELSE <<>>

\* seq[:n]
Take(seq, n) == SubSeq(seq, 1, Min(n, Len(seq)))

\* FallbackSimplifier._extract_key_points
fallback_key_points(text) ==
    Take(Scan(text, "Involves money", {"$100"})
            \o Scan(text, "Time periods", {"30 days"})
            \o Scan(text, "Percentages", {"5%"})
            \o Scan(text, "Creates obligations", {"shall", "will"})
            \o Scan(text, "Has conditions", {"if"}), 5)

\* MinimalLegalDocumentAnalyzer._extract_key_points
minimal_key_points(text) ==
    Take(Scan(text, "Involves money", {"$100"})
            \o Scan(text, "Time periods", {"30 days"}), 3)

\* GraniteSimplifier._extract_key_points: what follows the first "shall"
\* or "will", else the clause as its one sentence when longer than 20
granite_key_points(text) ==
    LET at(w) == {i \in 1..(Len(text) - 1) : text[i] = w}
        first(w) == CHOOSE i \in at(w) : \A j \in at(w) : i <= j
        after(w) == SubSeq(text, first(w) + 1, Len(text))
        found == (IF at("shall") # {} THEN <<after("shall")>> ELSE <<>>)
                    \o (IF at("will") # {} THEN <<after("will")>> ELSE <<>>)
    IN  IF found # <<>> THEN found
        ELSE IF NumChars(text) > 20 THEN <<text>>
        ELSE <<>>

\* GraniteSimplifier._create_plain_english_summary
_create_plain_english_summary(original, simplified) ==
    IF NumChars(simplified) > 10 THEN simplified
    ELSE <<"This clause means:">> \o _fallback_simplification(original)

\* the steps of a try block that can fail
FallbackSteps == {"rules", "summary", "key_points", "score"}

GraniteSteps == {"prompt", "generate", "key_points", "summary", "score"}

\* FallbackSimplifier.simplify_clause(clause), the step `fault` failing
fallback_simplify_clause(clause, fault) ==
    IF ~clause.str \/ fault \in {"rules", "summary", "key_points"}
    THEN [tag |-> "simplified",
          original_clause |-> clause.words,
          simplified_clause |-> clause.words,
          plain_english_summary |-> <<"Unable to simplify this clause.">>,
          key_points |-> <<>>,
          simplification_score |-> Ratio(0, 1),
          method |-> "fallback"]
    ELSE LET simplified == _apply_simplification_rules(clause.words)
         IN  [tag |-> "simplified",
          original_clause |-> clause.words,
              simplified_clause |-> simplified,
              plain_english_summary |-> _generate_plain_english_summary(simplified),
              key_points |-> fallback_key_points(simplified),
              simplification_score |->
                  IF fault = "score" THEN Ratio(1, 10)
                  ELSE Score(clause.words, simplified, 3, 7, 10),
              method |-> "rule_based"]

\* GraniteSimplifier.simplify_clause(clause), the model answering
\* `generated` and the step `fault` failing
granite_simplify_clause(clause, generated, fault) ==
    IF ~clause.str THEN ErrVal("AttributeError")
    ELSE IF clause.words = <<>>
    THEN [tag |-> "simplified",
          original_clause |-> clause.words,
          simplified_clause |-> clause.words,
          plain_english_summary |-> clause.words,
          key_points |-> <<>>,
          simplification_score |-> Ratio(0, 1),
          method |-> "granite"]
    ELSE IF fault = "key_points" THEN ErrVal("key_points")
    ELSE IF fault \in {"prompt", "summary"}
    THEN [tag |-> "simplified",
          original_clause |-> clause.words,
          simplified_clause |-> _fallback_simplification(clause.words),
          plain_english_summary |-> _fallback_simplification(clause.words),
          key_points |-> granite_key_points(clause.words),
          simplification_score |-> Ratio(1, 2),
          method |-> "granite"]
    ELSE LET simplified ==
                 IF fault = "generate"
                 THEN _fallback_simplification(PromptText \o clause.words)
                 ELSE generated
         IN  [tag |-> "simplified",
          original_clause |-> clause.words,
              simplified_clause |-> simplified,
              plain_english_summary |-> _create_plain_english_summary(clause.words, simplified),
              key_points |-> granite_key_points(clause.words),
              simplification_score |->
                  IF fault = "score" THEN Ratio(1, 2)
                  ELSE Score(clause.words, simplified, 1, 1, 2),
              method |-> "granite"]

\* MinimalLegalDocumentAnalyzer._simplify_clause(clause); the score is
\* max(0.1, word_reduction)
minimal_simplify_clause(clause) ==
    IF ~clause.str THEN ErrVal("AttributeError")
    ELSE LET simplified == Rewrite("minimal", clause.words)
             ow == NumWords(clause.words)
             sw == NumWords(simplified)
         IN  [tag |-> "simplified",
              original_clause |-> clause.words,
              simplified_clause |-> simplified,
              plain_english_summary |-> minimal_summary(simplified),
              key_points |-> minimal_key_points(simplified),
              simplification_score |->
                  IF ow = 0 \/ 10 * (ow - sw) <= ow THEN Ratio(1, 10)
                  ELSE Ratio(ow - sw, ow),
              method |-> "minimal"]

\* the caller builds the clause
AddClauseWord(w) ==
    /\ sout = NoVal
    /\ sclause.str
    /\ Len(sclause.words) < MaxClauseWords
    /\ sclause' = [sclause EXCEPT !.words = Append(@, w)]
    /\ UNCHANGED sout

\* the caller passes a value that is not a string
PassNone ==
    /\ sout = NoVal
    /\ sclause.words = <<>>
    /\ sclause.str
    /\ sclause' = [sclause EXCEPT !.str = FALSE]
    /\ UNCHANGED sout

SimplifyFallback(fault) ==
    /\ sout = NoVal
    /\ sout' = [by |-> "fallback", fault |-> fault,
                ret |-> fallback_simplify_clause(sclause, fault)]
    /\ UNCHANGED sclause

SimplifyGranite(generated, fault) ==
    /\ sout = NoVal
    /\ sout' = [by |-> "granite", fault |-> fault,
                ret |-> granite_simplify_clause(sclause, generated, fault)]
    /\ UNCHANGED sclause

SimplifyMinimal ==
    /\ sout = NoVal
    /\ sout' = [by |-> "minimal", fault |-> "none", ret |-> minimal_simplify_clause(sclause)]
    /\ UNCHANGED sclause

InitSimplify ==
    /\ variant = "optimized"
    /\ PipeIdle
    /\ SingletonBuilt
    /\ CacheIdle
    /\ FunIdle

NextSimplify ==
    \/ (\E w \in ClauseWords : AddClauseWord(w))
          /\ UNCHANGED <<pipevars, singvars, cachevars, clsvars, nervars, segvars, normvars, fixvars, chunkvars>>
    \/ PassNone /\ UNCHANGED <<pipevars, singvars, cachevars, clsvars, nervars, segvars, normvars, fixvars, chunkvars>>
    \/ (\E fault \in FallbackSteps \cup {"none"} : SimplifyFallback(fault))
          /\ UNCHANGED <<pipevars, singvars, cachevars, clsvars, nervars, segvars, normvars, fixvars, chunkvars>>
    \/ (\E generated \in GeneratedTexts, fault \in GraniteSteps \cup {"none"} :
           SimplifyGranite(generated, fault))
          /\ UNCHANGED <<pipevars, singvars, cachevars, clsvars, nervars, segvars, normvars, fixvars, chunkvars>>

    \/ SimplifyMinimal /\ UNCHANGED <<pipevars, singvars, cachevars, clsvars, nervars, segvars, normvars, fixvars, chunkvars>>

SpecSimplify == InitSimplify /\ [][NextSimplify]_vars

\* an error was raised inside the try block of simplify_clause
InternalError ==
    /\ sout # NoVal
    /\ \/ ~sclause.str
       \/ /\ sout.by = "fallback"
          /\ sout.fault \in {"rules", "summary", "key_points"}
       \/ /\ sout.by = "granite"
          /\ sclause.words # <<>>
          /\ sout.fault \in {"prompt", "key_points", "summary"}

\* C20: simplify never propagates an exception, and after an internal
\* error it returns the clause passed through the substitution table alone,
\* the score 0.1 and no key points.
C20_ErrorFallback ==
    /\ sout # NoVal => sout.ret.tag # "error"
    /\ InternalError =>
          /\ sout.ret.simplified_clause =
                (IF sout.by = "fallback" THEN _apply_simplification_rules(sclause.words)
                 ELSE _fallback_simplification(sclause.words))
          /\ sout.ret.simplification_score = Ratio(1, 10)
          /\ sout.ret.key_points = <<>>

\* simplify_clause returned a result
Simplified == sout # NoVal /\ sout.ret.tag = "simplified"

\* C21: the simplification score a simplifier returns lies in [0, 1],
\* for the empty clause and for a simplified text with more words than the
\* original too.
C21_ScoreInRange ==
    Simplified =>
        /\ sout.ret.simplification_score.den > 0
        /\ 0 <= sout.ret.simplification_score.num
        /\ sout.ret.simplification_score.num <= sout.ret.simplification_score.den

\* C21 witness: the language model answered with more words than the
\* clause has and the score was calculated
C21_Witness ==
    /\ Simplified
    /\ sout.by = "granite"
    /\ sout.fault = "none"
    /\ sclause.words # <<>>
    /\ NumWords(sout.ret.simplified_clause) > NumWords(sclause.words)

\* a category of key point has something to find in the text
Present(text) ==
    {c \in {"Involves money", "Time periods", "Percentages", "Creates obligations",
            "Has conditions"} :
        \/ c = "Involves money" /\ Has(text, {"$100"})
        \/ c = "Time periods" /\ Has(text, {"30 days"})
        \/ c = "Percentages" /\ Has(text, {"5%"})
        \/ c = "Creates obligations" /\ Has(text, {"shall", "will"})
        \/ c = "Has conditions" /\ Has(text, {"if"})}

\* C22: key_points has at most 3 entries and each category present in
\* the clause contributes at most one entry.
C22_AtMostThreeKeyPoints ==
    Simplified =>
        /\ Len(sout.ret.key_points) <= 3
        /\ \A c \in Present(sout.ret.simplified_clause) :
              Cardinality({i \in DOMAIN sout.ret.key_points : sout.ret.key_points[i] = c}) <= 1

-----------------------------------------------------------------------------
(* The normalizer: MinimalLegalDocumentAnalyzer._preprocess_text, which    *)
(* cleans the text and computes the statistics as                          *)
(* MinimalTextProcessor.extract_basic_statistics does.  A text is a        *)
(* sequence of tokens separated by white space.                            *)

\* tokens of a text given to the normalizer
MaxNormTokens == 4

\* a word, a word that ends a sentence, punctuation alone, and a character
\* that cleaning removes
NormTokens == {"ab", "abc.", "...", "#"}

\* len(token)
TokenLen(t) == CASE t = "ab" -> 2 [] t = "abc." -> 4 [] t = "..." -> 3 [] t = "#" -> 1

\* the second re.sub of cleaning removes "#"
Survives(t) == t # "#"

\* cleaned_text.split()
CleanedWords(raw) == SelectSeq(raw, Survives)

RECURSIVE SumLen(_)
SumLen(words) == IF words = <<>> THEN 0 ELSE TokenLen(Head(words)) + SumLen(Tail(words))

\* len(cleaned_text): the white space around a removed character stays,
\* except at the ends, which strip() removes
CleanedLength(raw) ==
    LET at == {i \in DOMAIN raw : Survives(raw[i])}
        lo == CHOOSE i \in at : \A j \in at : i <= j
        hi == CHOOSE i \in at : \A j \in at : j <= i
    IN  IF at = {} THEN 0 ELSE SumLen(CleanedWords(raw)) + (hi - lo)

\* re.split(r'[.!?]+', cleaned_text): the number of parts and the number
\* of parts that are not blank; open says that the part being read has a
\* word in it
RECURSIVE SplitSentences(_, _, _, _)
SplitSentences(words, open, parts, full) ==
    IF words = <<>>
    THEN [parts |-> parts + 1, full |-> full + (IF open THEN 1 ELSE 0)]
    ELSE CASE Head(words) = "ab"   -> SplitSentences(Tail(words), TRUE, parts, full)
           [] Head(words) = "abc." -> SplitSentences(Tail(words), FALSE, parts + 1, full + 1)
           [] OTHER -> SplitSentences(Tail(words), FALSE, parts + 1,
                                      full + (IF open THEN 1 ELSE 0))

\* 'average_sentence_length': len(words) / len(sentences) if sentences else 0
average_sentence_length(words, sentences) ==
    IF sentences.parts = 0 THEN Ratio(0, 1) ELSE Ratio(Len(words), sentences.parts)

\* MinimalLegalDocumentAnalyzer._preprocess_text(text)
_preprocess_text(raw) ==
    LET words == CleanedWords(raw)
        sentences == SplitSentences(words, FALSE, 0, 0)
    IN  [tag |-> "preprocessed",
         cleaned_text |-> words,
         statistics |->
            [word_count |-> Len(words),
             character_count |-> CleanedLength(raw),
             sentence_count |-> sentences.full,
             average_word_length |->
                 IF words = <<>> THEN Ratio(0, 1) ELSE Ratio(SumLen(words), Len(words)),
             average_sentence_length |-> average_sentence_length(words, sentences)]]

\* the caller builds the text
AddNormToken(t) ==
    /\ nres = NoVal
    /\ Len(ntext) < MaxNormTokens
    /\ ntext' = Append(ntext, t)
    /\ UNCHANGED nres

Normalize ==
    /\ variant = "minimal"
    /\ nres = NoVal
    /\ nres' = _preprocess_text(ntext)
    /\ UNCHANGED ntext

InitNormalize ==
    /\ variant = "minimal"
    /\ PipeIdle
    /\ SingletonBuilt
    /\ CacheIdle
    /\ FunIdle

NextNormalize ==
    \/ (\E t \in NormTokens : AddNormToken(t))
          /\ UNCHANGED <<pipevars, singvars, cachevars, clsvars, nervars, segvars, simpvars, fixvars, chunkvars>>
    \/ Normalize
          /\ UNCHANGED <<pipevars, singvars, cachevars, clsvars, nervars, segvars, simpvars, fixvars, chunkvars>>

SpecNormalize == InitNormalize /\ [][NextNormalize]_vars

Normalized == nres # NoVal

\* C24: the statistics are those of the cleaned text: word_count is its
\* number of words, the average word length is the sum of the word lengths
\* over word_count (0 without words), and the average sentence length is
\* word_count over sentence_count (0 when sentence_count is 0).
C24_StatisticsOfCleanedText ==
    Normalized =>
        LET st == nres.statistics
            words == nres.cleaned_text
        IN  /\ st.word_count = Len(words)
            /\ st.average_word_length =
                  (IF st.word_count = 0 THEN Ratio(0, 1)
                   ELSE Ratio(SumLen(words), st.word_count))
            /\ st.average_sentence_length =
                  (IF st.sentence_count = 0 THEN Ratio(0, 1)
                   ELSE Ratio(st.word_count, st.sentence_count))

-----------------------------------------------------------------------------
(* The stages on one document that is empty or has one token: each stage   *)
(* is given the document in the form it reads.                             *)

\* the texts of at most one token
UpToOne(tokens) == {<<>>} \cup {<<t>> : t \in tokens}

InitStages ==
    /\ variant \in {"optimized", "minimal"}
    /\ PipeIdle
    /\ SingletonBuilt
    /\ CacheIdle
    /\ ctext \in UpToOne(Vocabulary)
    /\ cres = NoVal
    /\ cprev = NoVal
    /\ etext \in UpToOne(EntityTokens)
    /\ eres = NoVal
    /\ efault = "none"
    /\ stext \in UpToOne({[sep |-> "", len |-> n] : n \in PieceLengths})
    /\ sres = NoVal
    /\ mchunks = <<>>
    /\ mres = NoVal
    /\ sclause = [str |-> TRUE, words |-> <<>>]
    /\ sout = NoVal
    /\ ntext \in UpToOne(NormTokens)
    /\ nres = NoVal
    /\ ftext = 0
    /\ fres = NoVal
    /\ ktext = <<>>
    /\ kloop = [pc |-> "build", start |-> 0, chunks |-> <<>>]

NextStages ==
    \/ Normalize
          /\ UNCHANGED <<pipevars, singvars, cachevars, clsvars, nervars, segvars, simpvars, fixvars, chunkvars>>
    \/ ClassifyText
          /\ UNCHANGED <<pipevars, singvars, cachevars, nervars, segvars, simpvars, normvars, fixvars, chunkvars>>
    \/ Extract
          /\ UNCHANGED <<pipevars, singvars, cachevars, clsvars, segvars, simpvars, normvars, fixvars, chunkvars>>
    \/ Segment
          /\ UNCHANGED <<pipevars, singvars, cachevars, clsvars, nervars, simpvars, normvars, fixvars, chunkvars>>

SpecStages == InitStages /\ [][NextStages]_vars

\* C23: on the empty string no stage raises: the normalizer returns
\* zeroed statistics, the classifier "unknown" with confidence 0, the entity
\* extractor empty lists and the clause segmenter the empty list.
C23_EmptyTextCompletes ==
    /\ (ntext = <<>> /\ nres # NoVal) =>
          /\ nres.tag = "preprocessed"
          /\ nres.statistics.word_count = 0
          /\ nres.statistics.character_count = 0
          /\ nres.statistics.sentence_count = 0
          /\ nres.statistics.average_word_length = Ratio(0, 1)
          /\ nres.statistics.average_sentence_length = Ratio(0, 1)
    /\ (ctext = <<>> /\ cres # NoVal) =>
          /\ cres.tag = "classification"
          /\ cres.predicted_type = "unknown"
          /\ cres.confidence = Clamped(0, 10)
    /\ (etext = <<>> /\ eres # NoVal) =>
          /\ eres.tag = "entities"
          /\ \A f \in DOMAIN eres.map : eres.map[f] = <<>>
    /\ (stext = <<>> /\ sres # NoVal) => sres.list = <<>>

-----------------------------------------------------------------------------
(* StandaloneLegalAnalyzer._extract_clauses on an unstructured text: one   *)
(* run of characters without line break, number or sentence end, given by  *)
(* its length.                                                             *)

\* characters of the unstructured text
MaxTextLen == 1200

\* characters added at a time
Strokes == {10, 90, 400}

\* chunk_size = max(400, len(text) // 10)
chunk_size(len) == IF len \div 10 > 400 THEN len \div 10 ELSE 400

\* for i in range(0, len(text), chunk_size): text[i:i+chunk_size]
RECURSIVE FixedChunks(_, _, _)
FixedChunks(len, size, i) ==
    IF i >= len THEN <<>>
    ELSE <<[lo |-> i + 1, hi |-> Min(i + size, len), by |-> "fixed"]>>
            \o FixedChunks(len, size, i + size)

\* "Clean up clauses": a clause with its label of 8 characters ("Part 1: ")
\* stays when it has more than 50 characters
CleanedUp(parts) ==
    LET long(part) == (part.hi - part.lo + 1) + 8 > MinClauseLength
    IN  SelectSeq(parts, long)

\* methods 1 and 2 find nothing in an unstructured text; method 3 makes the
\* text longer than 1000 characters one clause; method 4 is the fixed-size
\* split
standalone_extract_clauses(len) ==
    LET sentences == IF len > 1000
                     THEN <<[lo |-> 1, hi |-> len, by |-> "sentences"]>>
                     ELSE <<>>
        parts == IF sentences # <<>> THEN sentences
                 ELSE FixedChunks(len, chunk_size(len), 0)
    IN  [tag |-> "clauses", parts |-> parts, list |-> CleanedUp(parts)]

\* the text grows
AddChars(n) ==
    /\ fres = NoVal
    /\ ftext + n <= MaxTextLen
    /\ ftext' = ftext + n
    /\ UNCHANGED fres

SegmentStandalone ==
    /\ fres = NoVal
    /\ fres' = standalone_extract_clauses(ftext)
    /\ UNCHANGED ftext

InitFixed ==
    /\ variant = "optimized"
    /\ PipeIdle
    /\ SingletonBuilt
    /\ CacheIdle
    /\ FunIdle

NextFixed ==
    \/ (\E n \in Strokes : AddChars(n))
          /\ UNCHANGED <<pipevars, singvars, cachevars, clsvars, nervars, segvars, simpvars, normvars, chunkvars>>
    \/ SegmentStandalone
          /\ UNCHANGED <<pipevars, singvars, cachevars, clsvars, nervars, segvars, simpvars, normvars, chunkvars>>

SpecFixed == InitFixed /\ [][NextFixed]_vars

\* C25: when the segmentation of a text that is not empty comes to the
\* fixed-size split, the split has at least 10 chunks, all of one size
\* except the last, which may be shorter.
C25_AtLeastTenEqualChunks ==
    (fres # NoVal /\ ftext > 0 /\ \E i \in DOMAIN fres.parts : fres.parts[i].by = "fixed") =>
        /\ Len(fres.parts) >= 10
        /\ \A i \in 1..(Len(fres.parts) - 1) :
              fres.parts[i].hi - fres.parts[i].lo = fres.parts[1].hi - fres.parts[1].lo
        /\ fres.parts[Len(fres.parts)].hi - fres.parts[Len(fres.parts)].lo
              <= fres.parts[1].hi - fres.parts[1].lo

-----------------------------------------------------------------------------
(* More properties of the pipeline                                         *)

\* analysis a has segmented its document and simplification is not to run
Skips(a) ==
    /\ "Segmented" \in SeqRange(hist[a])
    /\ ~include[a] \/ frame[a].clauses = <<>>

\* C26: when include_simplification is false or the segmentation returned
\* no clauses, the analysis enters SimplificationSkipped: no simplification
\* task is in the pool or awaited, there is no delay between batches,
\* simplified_clauses is empty, and classification, entities and clauses are
\* those of a run with simplification.
C26_SimplificationSkipped ==
    \A a \in Analyses :
        Skips(a) =>
            /\ IsPrefix(Entered(a), StagesSkipped)
            /\ "SimplificationSkipped" \in SeqRange(hist[a])
            /\ "simplify" \notin PendingKinds(a)
            /\ pc[a] \notin {"batch", "sleep", "simplify"}
            /\ frame[a].simp = <<>>
            /\ frame[a].cls = ExpectedClassification(a)
            /\ frame[a].ent = SoloFrame(variant, doc[a], TRUE).ent
            /\ frame[a].clauses = SoloFrame(variant, doc[a], TRUE).clauses
            /\ result[a] # NoVal =>
                  /\ result[a].simplified_clauses = <<>>
                  /\ result[a].classification = ExpectedClassification(a)
                  /\ result[a].entities = SoloResult(variant, doc[a], TRUE).entities
                  /\ result[a].extracted_clauses = SoloResult(variant, doc[a], TRUE).extracted_clauses

\* C26 witness: an analysis without simplification returned a result with
\* the clauses of its document and no simplified clause
C26_Witness ==
    \E a \in Analyses :
        /\ ~include[a]
        /\ result[a] # NoVal
        /\ result[a].extracted_clauses # <<>>
        /\ result[a].simplified_clauses = <<>>
        /\ hist[a] = StagesSkipped

\* the positions, from 0, of the clauses handed to the simplifier so far
Submitted(a) ==
    {t.idx - 1 : t \in {t \in running \cup SeqRange(queue) : t.a = a /\ t.kind = "simplify"}}
        \cup {done[a][j].idx - 1 : j \in {j \in DOMAIN done[a] : done[a][j].kind = "simplify"}}

\* C27: of every clause list the simplification stage takes the first 10
\* clauses alone: no clause at index 10 or later is submitted, and
\* simplified_clauses has at most 10 entries.
C27_FirstTenOnly ==
    \A a \in Analyses :
        /\ \A i \in Submitted(a) : i < SimplifyLimit
        /\ Len(frame[a].simp) <= SimplifyLimit

-----------------------------------------------------------------------------
(* OptimizedLegalDocumentAnalyzer._chunk_text(text, chunk_size=5000,       *)
(* overlap=500).  A text is a sequence of runs of characters; a run may    *)
(* end with a full stop.  Positions are counted from 0 as in the code.     *)

ChunkSize == 5000

Overlap == 500

SentenceWindow == 200

\* runs of a text
MaxRuns == 4

RunLengths == {150, 4400, 4900}

RECURSIVE TextLength(_)
TextLength(text) == IF text = <<>> THEN 0 ELSE Head(text).len + TextLength(Tail(text))

\* the positions of the full stops
FullStops(text) == {TextLength(SubSeq(text, 1, i)) - 1 : i \in {i \in DOMAIN text : text[i].dot}}

\* text.rfind('.', lo, hi)
rfind(text, lo, hi) ==
    LET found == {p \in FullStops(text) : lo <= p /\ p < hi}
    IN  IF found = {} THEN -1 ELSE CHOOSE p \in found : \A q \in found : q <= p

\* faulty variant: the next chunk starts where the chunk ended
next_start_at_end(end, len) == end

\* start = end - overlap if end < len(text) else end
next_start(end, len) == IF end < len THEN end - Overlap ELSE end

\* the caller builds the text
AddRun(n, dot) ==
    /\ kloop.pc = "build"
    /\ Len(ktext) < MaxRuns
    /\ ktext' = Append(ktext, [len |-> n, dot |-> dot])
    /\ UNCHANGED kloop

\* chunks = []; start = 0
ChunkCall ==
    /\ kloop.pc = "build"
    /\ kloop' = [pc |-> "loop", start |-> 0, chunks |-> <<>>]
    /\ UNCHANGED ktext

\* one pass of the while loop
ChunkStep ==
    /\ kloop.pc = "loop"
    /\ kloop.start < TextLength(ktext)
    /\ LET len == TextLength(ktext)
           cut == kloop.start + ChunkSize
           sentence_end == rfind(ktext, cut - SentenceWindow, cut)
           end == IF cut < len /\ sentence_end # -1 THEN sentence_end + 1 ELSE cut
       IN  kloop' = [kloop EXCEPT
                        !.chunks = Append(@, [lo |-> kloop.start, hi |-> Min(end, len)]),
                        !.start = next_start(end, len)]
    /\ UNCHANGED ktext

\* the while test fails: return chunks
ChunkReturn ==
    /\ kloop.pc = "loop"
    /\ kloop.start >= TextLength(ktext)
    /\ kloop' = [kloop EXCEPT !.pc = "done"]
    /\ UNCHANGED ktext

InitChunk ==
    /\ variant = "optimized"
    /\ PipeIdle
    /\ SingletonBuilt
    /\ CacheIdle
    /\ FunIdle

NextChunk ==
    \/ (\E n \in RunLengths, dot \in BOOLEAN : AddRun(n, dot))
          /\ UNCHANGED <<pipevars, singvars, cachevars, clsvars, nervars, segvars, simpvars, normvars, fixvars>>
    \/ ChunkCall
          /\ UNCHANGED <<pipevars, singvars, cachevars, clsvars, nervars, segvars, simpvars, normvars, fixvars>>
    \/ ChunkStep
          /\ UNCHANGED <<pipevars, singvars, cachevars, clsvars, nervars, segvars, simpvars, normvars, fixvars>>
    \/ ChunkReturn
          /\ UNCHANGED <<pipevars, singvars, cachevars, clsvars, nervars, segvars, simpvars, normvars, fixvars>>

\* the thread that runs _chunk_text goes on running it
ChunkRuns ==
    /\ ChunkStep \/ ChunkReturn
    /\ UNCHANGED <<pipevars, singvars, cachevars, clsvars, nervars, segvars, simpvars, normvars, fixvars>>

SpecChunk == InitChunk /\ [][NextChunk]_vars /\ WF_vars(ChunkRuns)

\* the chunks made so far
ChunksWellFormed ==
    LET chunks == kloop.chunks
        len == TextLength(ktext)
    IN  /\ \A i \in DOMAIN chunks : chunks[i].hi - chunks[i].lo <= ChunkSize
        /\ \A i \in 2..Len(chunks) :
              /\ chunks[i].lo > chunks[i - 1].lo
              /\ chunks[i].lo = chunks[i - 1].hi - Overlap
        /\ chunks # <<>> => chunks[1].lo = 0
        /\ (kloop.pc = "done" /\ len > 0) =>
              /\ chunks # <<>>
              /\ chunks[Len(chunks)].hi = len

\* C28: _chunk_text returns for every text; each chunk starts after the
\* start of the chunk before it and exactly Overlap characters before its
\* end, has at most ChunkSize characters, the first starts at 0 and the last
\* ends at the end of the text, so that the chunks cover the text.
C28_ChunkingTerminatesAndCovers ==
    /\ []ChunksWellFormed
    /\ (kloop.pc = "loop") ~> (kloop.pc = "done")

\* C28 witness: a text was cut into three chunks or more, one of them at a
\* full stop before the chunk size was reached
C28_Witness ==
    /\ kloop.pc = "done"
    /\ Len(kloop.chunks) >= 3
    /\ \E i \in 1..(Len(kloop.chunks) - 1) :
          kloop.chunks[i].hi - kloop.chunks[i].lo < ChunkSize

-----------------------------------------------------------------------------
(* The segmenter inside analyze_document: the text it is given is the      *)
(* cleaned text of the preprocessing step.                                 *)

\* the separators that hold a newline
NewlineSeparators == {"\n\n", "\n1. ", "\na) "}

\* re.sub(r'\s+', ' ', ...) on a separator
Collapsed(sep) ==
    CASE sep = "\n\n" -> " "
      [] sep = "\n1. " -> " 1. "
      [] sep = "\na) " -> " a) "
      [] OTHER -> sep

\* TextPreprocessor.clean_text and the first lines of _preprocess_text: every
\* run of white space becomes one space
collapse_whitespace(text) ==
    [i \in DOMAIN text |-> [sep |-> Collapsed(text[i].sep), len |-> text[i].len]]

\* faulty variant: the segmenter is given the text as it was parsed
full_text(raw) == raw

\* the argument of the clause extraction: preprocessed['cleaned_text']
cleaned_text(raw) == collapse_whitespace(raw)

\* a piece is added to the text of the document, after any separator
AddRawPiece(sep, n) ==
    /\ sres = NoVal
    /\ Len(stext) < MaxPieces
    /\ stext' = Append(stext, [sep |-> IF stext = <<>> THEN "" ELSE sep, len |-> n])
    /\ UNCHANGED <<sres, mchunks, mres>>

\* steps 2 and 5 of analyze_document: the text is preprocessed and the
\* cleaned text is segmented
PreprocessAndSegment ==
    /\ sres = NoVal
    /\ LET text == cleaned_text(stext)
       IN  sres' = [tag |-> "clauses", list |-> segment(variant, text), text |-> text]
    /\ UNCHANGED <<stext, mchunks, mres>>

NextPipelineSegment ==
    \/ (\E sep \in AllSeparators, n \in PieceLengths : AddRawPiece(sep, n))
          /\ UNCHANGED <<pipevars, singvars, cachevars, clsvars, nervars, simpvars, normvars, fixvars, chunkvars>>
    \/ PreprocessAndSegment
          /\ UNCHANGED <<pipevars, singvars, cachevars, clsvars, nervars, simpvars, normvars, fixvars, chunkvars>>

SpecPipelineSegment == InitSegment /\ [][NextPipelineSegment]_vars

\* C30: the text the segmenter is given inside analyze_document holds no
\* newline, so the numbered-section, the lettered-section and the blank-line
\* splits each yield one part.
C30_SegmenterGetsCleanedText ==
    Segmented =>
        /\ \A i \in DOMAIN sres.text : sres.text[i].sep \notin NewlineSeparators
        /\ \A sep \in NewlineSeparators : Len(Split(sres.text, sep)) = 1

\* C30 witness: a document with a numbered marker and a blank line was
\* segmented by the lightweight analyzer, which returned the whole cleaned
\* text as its one clause
C30_Witness ==
    /\ Segmented
    /\ variant = "minimal"
    /\ \E i, j \in DOMAIN stext : stext[i].sep = "\n1. " /\ stext[j].sep = "\n\n"
    /\ Len(sres.list) = 1
    /\ sres.list[1].lo = 1
    /\ sres.list[1].hi = Len(stext)

====
